---- MODULE Spec2Model ----
(***************************************************************************)
(* Verification model of SafePay Guardian.                                 *)
(*                                                                         *)
(* Part 1: the rule-based fraud scorer, analyzeFraud                       *)
(* (server/fraud-detection.ts).  One call of analyzeFraud is a run of the  *)
(* state machine below: pc walks through the statements of the function,   *)
(* the locals fraudScore, signals, detectedScams and textToAnalyze are     *)
(* variables, and the return value is stored in result.  Specification     *)
(* Spec.                                                                   *)
(*                                                                         *)
(* Part 2: the transformers (parseMT103, convertMT103ToISO20022,           *)
(* parseNACHA, convertNACHAToISO20022) and the two endpoints that call     *)
(* them, POST /api/transform and POST /api/transform/batch, with the       *)
(* transactions table they insert into.  One handler invocation per file   *)
(* is a task; tasks interleave at their awaits.  Specification             *)
(* TransformSpec.                                                          *)
(*                                                                         *)
(* Numbers.  JavaScript numbers are modelled exactly:                      *)
(*   - an amount is a number of cents followed by the decimal digits      *)
(*     beyond the cent (none for the amounts of the scorer's own inputs    *)
(*     and of NACHA, whatever parseFloat read for MT103), or NaN           *)
(*     (parseFloat / parseInt of a field without digits gives NaN, and     *)
(*     every comparison with NaN is false);                                *)
(*   - a score is an integer number of 1/Scale points.  Every value the    *)
(*     scorer can produce (m/8*100, m/9*100, m/10*100, 70, these times     *)
(*     1.2, plus 15, plus 10, capped at 95) is a multiple of 1/18, and no  *)
(*     such value lies within floating-point error of a threshold or of a  *)
(*     rounding boundary other than the exact halves 62.5, 72.5, ... which *)
(*     are exact in binary floating point as well.                         *)
(***************************************************************************)
EXTENDS Integers, Sequences, FiniteSets, TLC

VARIABLES
    amount,          \* argument: [nan : BOOLEAN, cents : Int]
    remittanceInfo,  \* argument: string
    recipientName,   \* argument: string ("" is the default value)
    customerAge,     \* argument: <<>> when absent, <<n>> when given
    pc,              \* position inside analyzeFraud
    idx,             \* index of the catalog entry the pattern loop is at
    textToAnalyze,   \* local of analyzeFraud
    fraudScore,      \* local of analyzeFraud, in 1/Scale points
    signals,         \* local of analyzeFraud
    detectedScams,   \* local of analyzeFraud
    ai,              \* what the AI enhancement did in this call
    result,          \* <<>> until the call returns, then <<FraudResult>>
    prev,            \* <<>> or <<r>>: score, flag and matched keywords of the
                     \* previous call of the same client
    calls,           \* number of calls the client has made after the first
    request,         \* the HTTP request being served: route, user, files
    now,             \* the clock: milliseconds since ClockStart
    tasks,           \* one record per file of the request: the handler's locals
    store,           \* the rows of the transactions table, in insertion order
    response,        \* <<>> until the endpoint responds, then <<response>>
    earlier,         \* <<>> or <<response>>: the response to the previous,
                     \* identical request
    repeats,         \* number of times the request has been sent again
    randoms          \* number of values drawn from Math.random so far

fvars == <<amount, remittanceInfo, recipientName, customerAge, pc, idx,
           textToAnalyze, fraudScore, signals, detectedScams, ai, result,
           prev, calls>>

tvars == <<request, now, tasks, store, response, earlier, repeats, randoms>>

vars == <<fvars, tvars>>

\* No request is being served (the state of the endpoints while the scorer
\* is studied on its own).
NoRequest == <<>>

TransformIdle ==
    /\ request = NoRequest
    /\ now = 0
    /\ tasks = <<>>
    /\ store = <<>>
    /\ response = <<>>
    /\ earlier = <<>>
    /\ repeats = 0
    /\ randoms = 0

-----------------------------------------------------------------------------
(* Bounds and input sets                                                   *)

MaxExtend == 1

RemittanceTexts ==
    { "",
      "Monthly Support",
      "URGENT: IRS Tax Penalty Payment - Account will be suspended",
      "IRS tax penalty arrest warrant",
      "IRS federal treasury tax debt penalty arrest warrant",
      "emergency accident hospital bail for grandson help me",
      "Social Security number SSN suspended fraud",
      "Microsoft tech support: computer virus infected malware - IRS tax penalty arrest warrant",
      "invoice for tech" }

RecipientNames == { "", "Support Ltd" }

Fragments == { "urgent", "virus asap today" }

NaN == [nan |-> TRUE, cents |-> 0, beyond |-> ""]

Dollars(d) == [nan |-> FALSE, cents |-> d * 100, beyond |-> ""]

Cents(c) == [nan |-> FALSE, cents |-> c, beyond |-> ""]

Amounts ==
    { NaN, Dollars(0), Dollars(200), Dollars(500), Dollars(1000),
      Cents(100050), Dollars(2000), Dollars(2500) }

Ages == { <<>>, <<64>>, <<65>>, <<72>> }

-----------------------------------------------------------------------------
(* Numbers                                                                 *)

Scale == 2 * 9

Min(a, b) == IF a <= b THEN a ELSE b

Max(a, b) == IF a >= b THEN a ELSE b

\* Math.round of a non-negative score: nearest integer, halves upwards.
MathRound(s) == (2 * s + Scale) \div (2 * Scale)

\* amount >= d and amount <= d for a whole number of dollars d; false for NaN.
AmountGe(a, d) == ~a.nan /\ a.cents >= d * 100

AmountLe(a, d) ==
    ~a.nan /\ (a.cents < d * 100 \/ (a.cents = d * 100 /\ a.beyond = ""))

\* amount % 500 === 0; NaN % 500 is NaN.
AmountMod500IsZero(a) == ~a.nan /\ a.cents % 50000 = 0 /\ a.beyond = ""

-----------------------------------------------------------------------------
(* Strings                                                                 *)

UpperCaseLetters == "ABCDEFGHIJKLMNOPQRSTUVWXYZ"

LowerCaseLetters == "abcdefghijklmnopqrstuvwxyz"

LowerCaseOf == [ c \in { SubSeq(UpperCaseLetters, i, i) : i \in 1..26 } |->
                    LET i == CHOOSE j \in 1..26 : SubSeq(UpperCaseLetters, j, j) = c
                    IN  SubSeq(LowerCaseLetters, i, i) ]

LowerChar(c) == IF c \in DOMAIN LowerCaseOf THEN LowerCaseOf[c] ELSE c

RECURSIVE toLowerCase(_)
toLowerCase(s) ==
    IF Len(s) = 0 THEN ""
    ELSE IF Len(s) = 1 THEN LowerChar(s)
    ELSE LET half == Len(s) \div 2
         IN  toLowerCase(SubSeq(s, 1, half)) \o toLowerCase(SubSeq(s, half + 1, Len(s)))

\* String.prototype.includes
includes(s, word) ==
    \E i \in 1..(Len(s) - Len(word) + 1) : SubSeq(s, i, i + Len(word) - 1) = word

\* Array.prototype.join
RECURSIVE join(_, _)
join(words, sep) ==
    IF Len(words) = 0 THEN ""
    ELSE IF Len(words) = 1 THEN words[1]
    ELSE words[1] \o sep \o join(Tail(words), sep)

-----------------------------------------------------------------------------
(* The scam-pattern catalog, in the order of Object.entries(SCAM_PATTERNS). *)
(* confidenceThreshold is kept in hundredths (0.6 is 60).                  *)

SCAM_PATTERNS ==
    << [ name |-> "IRS Tax Scam",
         triggerWords |-> << "irs", "tax", "penalty", "arrest", "warrant",
                             "federal", "treasury", "tax debt" >>,
         typicalAmountMin |-> 500,
         typicalAmountMax |-> 10000,
         confidenceThreshold |-> 60,
         description |-> "Scammers impersonate IRS agents demanding immediate payment for tax debts",
         preventionTips |-> << "The IRS never calls to demand immediate payment",
                               "The IRS never threatens arrest over the phone",
                               "The IRS contacts you by mail first",
                               "Don't provide personal information to unsolicited callers",
                               "Call the IRS directly at 1-800-829-1040 if concerned" >> ],
       [ name |-> "Grandparent Emergency Scam",
         triggerWords |-> << "emergency", "urgent", "accident", "hospital", "bail",
                             "grandchild", "grandson", "granddaughter", "help me",
                             "don't tell" >>,
         typicalAmountMin |-> 1000,
         typicalAmountMax |-> 15000,
         confidenceThreshold |-> 65,
         description |-> "Scammers pretend to be grandchildren in emergency situations needing money",
         preventionTips |-> << "Always verify by calling your grandchild directly",
                               "Ask questions only the real person would know",
                               "Be suspicious of requests for secrecy",
                               "Never wire money for emergencies",
                               "Contact other family members to verify" >> ],
       [ name |-> "Social Security Suspension",
         triggerWords |-> << "social security", "ssn", "suspended", "fraud", "suspend",
                             "social security number", "compromised", "freeze" >>,
         typicalAmountMin |-> 200,
         typicalAmountMax |-> 5000,
         confidenceThreshold |-> 70,
         description |-> "Scammers claim Social Security number has been suspended due to suspicious activity",
         preventionTips |-> << "Social Security numbers are NEVER suspended",
                               "SSA never calls to demand payment",
                               "Contact SSA directly at 1-800-772-1213",
                               "Don't give SSN to unsolicited callers",
                               "Report suspicious calls to SSA Inspector General" >> ],
       [ name |-> "Tech Support Scam",
         triggerWords |-> << "microsoft", "apple", "computer", "virus", "infected",
                             "tech support", "security alert", "malware", "firewall" >>,
         typicalAmountMin |-> 200,
         typicalAmountMax |-> 2000,
         confidenceThreshold |-> 65,
         description |-> "Scammers pose as tech support claiming computer issues that need immediate payment",
         preventionTips |-> << "Microsoft and Apple never cold-call customers",
                               "Never give remote access to unsolicited callers",
                               "Don't trust pop-up warnings",
                               "Use official support channels only",
                               "Install reputable antivirus from known companies" >> ] >>

urgencyWords == << "urgent", "immediately", "right now", "asap", "today", "hurry", "quick" >>

-----------------------------------------------------------------------------
(* The statements of analyzeFraud as operators                             *)

\* const textToAnalyze = `${remittanceInfo} ${recipientName}`.toLowerCase()
TextToAnalyzeCaseSensitive(rem, rec) == rem \o " " \o rec

TextToAnalyze(rem, rec) == toLowerCase(rem \o " " \o rec)

\* The inner loop over pattern.triggerWords: the triggers found, in order.
MatchedTriggers(text, pattern) ==
    SelectSeq(pattern.triggerWords, LAMBDA trigger : includes(text, toLowerCase(trigger)))

\* Math.min((matchCount / pattern.triggerWords.length) * 100, 95)
Confidence(matchCount, pattern) ==
    Min((matchCount * 100 * Scale) \div Len(pattern.triggerWords), 95 * Scale)

\* matchCount > 0 and confidence >= pattern.confidenceThreshold * 100
IsDetected(matchCount, pattern) ==
    /\ matchCount > 0
    /\ Confidence(matchCount, pattern) >= pattern.confidenceThreshold * Scale

\* fraudScore = Math.max(fraudScore, confidence)
ScoreWithConfidenceSummed(score, confidence) == score + confidence

ScoreWithConfidence(score, confidence) == Max(score, confidence)

\* The guard of the amount-based detection.
AmountMatchesIgnoringKeywords(a, matchCount, pattern) ==
    /\ pattern.typicalAmountMin # 0 /\ pattern.typicalAmountMax # 0
    /\ AmountGe(a, pattern.typicalAmountMin)
    /\ AmountLe(a, pattern.typicalAmountMax)

AmountMatches(a, matchCount, pattern) ==
    /\ pattern.typicalAmountMin # 0 /\ pattern.typicalAmountMax # 0
    /\ AmountGe(a, pattern.typicalAmountMin)
    /\ AmountLe(a, pattern.typicalAmountMax)
    /\ matchCount > 0

\* fraudScore = Math.max(fraudScore, 70)
ScoreWithAmountBandAssigned(score) == 70 * Scale

ScoreWithAmountBand(score) == Max(score, 70 * Scale)

DetectedSignal(pattern, matchedTriggers) ==
    "Detected " \o pattern.name \o " keywords: " \o join(matchedTriggers, ", ")

AmountSignal(pattern) ==
    "Amount matches " \o pattern.name \o " pattern ($"
        \o ToString(pattern.typicalAmountMin) \o "-$"
        \o ToString(pattern.typicalAmountMax) \o ")"

ScamEntry(pattern, matchedTriggers) ==
    [ name |-> pattern.name,
      confidence |-> Confidence(Len(matchedTriggers), pattern),
      description |-> pattern.description,
      preventionTips |-> pattern.preventionTips,
      matchedTriggers |-> matchedTriggers ]

\* customerAge && customerAge >= 65
IsSeniorAbove65(age) == Len(age) = 1 /\ age[1] # 0 /\ age[1] > 65

IsSenior(age) == Len(age) = 1 /\ age[1] # 0 /\ age[1] >= 65

\* Math.min(fraudScore * 1.2, 95)
AgeAdjustedScoreAdditive(score) == Min(score + 20 * Scale, 95 * Scale)

AgeAdjustedScore(score) == Min((score * 12) \div 10, 95 * Scale)

AgeSignal == "Customer is in senior age group (higher vulnerability)"

\* urgencyWords.some(word => textToAnalyze.includes(word))
HasUrgency(text) == \E i \in 1..Len(urgencyWords) : includes(text, urgencyWords[i])

\* Math.min(fraudScore + 15, 95)
UrgencyScoreUncapped(score) == score + 15 * Scale

UrgencyScorePerWord(score) ==
    Min(score + 15 * Scale * Cardinality({ i \in 1..Len(urgencyWords) :
                                            includes(textToAnalyze, urgencyWords[i]) }),
        95 * Scale)

UrgencyScore(score) == Min(score + 15 * Scale, 95 * Scale)

UrgencySignal == "Urgent language detected (common pressure tactic)"

\* amount >= 1000 && amount % 500 === 0
IsLargeRoundAmountFrom500(a) == AmountGe(a, 500) /\ AmountMod500IsZero(a)

IsLargeRoundAmount(a) == AmountGe(a, 1000) /\ AmountMod500IsZero(a)

\* Math.min(fraudScore + 10, 95)
RoundAmountScoreUncapped(score) == score + 10 * Scale

RoundAmountScore(score) == Min(score + 10 * Scale, 95 * Scale)

RoundAmountSignal == "Large round amount (common in scams)"

\* const fraudFlag = fraudScore >= 60
FraudFlagAt70(score) == score >= 70 * Scale

FraudFlag(score) == score >= 60 * Scale

-----------------------------------------------------------------------------
(* The AI enhancement, enhanceWithAI.  Every failure of the call (the     *)
(* request throws, the client's timeout expires, JSON.parse rejects the    *)
(* content) lands in its catch block, which returns {}; otherwise it       *)
(* returns the additionalSignals of the reply and, on both branches of     *)
(* line 217, an undefined adjustedScore.  Options are sequences: <<>> is   *)
(* undefined.  The field failed tells which return statement was taken.    *)

AIReplies == { << "Authority impersonation with a threat of arrest" >> }

AdjustedScore(scoreAdjustment) == <<>>

\* The value of the catch block (line 220): an empty object.
AIFailureWithNotice ==
    [ failed |-> TRUE, additionalSignals |-> << << "AI analysis unavailable" >> >>,
      adjustedScore |-> <<>> ]

AIFailure == [ failed |-> TRUE, additionalSignals |-> <<>>, adjustedScore |-> <<>> ]

enhanceWithAI ==
    { AIFailure }
        \cup { [ failed |-> FALSE,
                 additionalSignals |-> << reply >>,
                 adjustedScore |-> AdjustedScore(adj) ] :
               reply \in AIReplies, adj \in { <<>>, << 20 >> } }

-----------------------------------------------------------------------------
(* State machine                                                           *)

NoResult == <<>>

Reset ==
    /\ pc' = "start"
    /\ idx' = 1
    /\ textToAnalyze' = ""
    /\ fraudScore' = 0
    /\ signals' = <<>>
    /\ detectedScams' = <<>>
    /\ ai' = "none"
    /\ result' = NoResult

Init ==
    /\ amount \in Amounts
    /\ remittanceInfo \in RemittanceTexts
    /\ recipientName \in RecipientNames
    /\ customerAge \in Ages
    /\ pc = "start"
    /\ idx = 1
    /\ textToAnalyze = ""
    /\ fraudScore = 0
    /\ signals = <<>>
    /\ detectedScams = <<>>
    /\ ai = "none"
    /\ result = NoResult
    /\ prev = <<>>
    /\ calls = 0
    /\ TransformIdle

\* Lines 76-86: the locals are initialised.
Enter ==
    /\ pc = "start"
    /\ textToAnalyze' = TextToAnalyze(remittanceInfo, recipientName)
    /\ fraudScore' = 0
    /\ signals' = <<>>
    /\ detectedScams' = <<>>
    /\ idx' = 1
    /\ pc' = "loop"
    /\ UNCHANGED <<amount, remittanceInfo, recipientName, customerAge, ai,
                   result, prev, calls>>
    /\ UNCHANGED tvars

\* Lines 89-124: one iteration of the loop over the catalog.
PatternStep ==
    /\ pc = "loop"
    /\ LET pattern == SCAM_PATTERNS[idx]
           matchedTriggers == MatchedTriggers(textToAnalyze, pattern)
           matchCount == Len(matchedTriggers)
           detected == IsDetected(matchCount, pattern)
           banded == AmountMatches(amount, matchCount, pattern)
           score1 == IF detected
                     THEN ScoreWithConfidence(fraudScore, Confidence(matchCount, pattern))
                     ELSE fraudScore
           signals1 == IF detected
                       THEN Append(signals, DetectedSignal(pattern, matchedTriggers))
                       ELSE signals
       IN  /\ detectedScams' = IF detected
                               THEN Append(detectedScams, ScamEntry(pattern, matchedTriggers))
                               ELSE detectedScams
           /\ signals' = IF banded THEN Append(signals1, AmountSignal(pattern)) ELSE signals1
           /\ fraudScore' = IF banded THEN ScoreWithAmountBand(score1) ELSE score1
    /\ IF idx < Len(SCAM_PATTERNS)
       THEN idx' = idx + 1 /\ pc' = "loop"
       ELSE idx' = idx /\ pc' = "age"
    /\ UNCHANGED <<amount, remittanceInfo, recipientName, customerAge,
                   textToAnalyze, ai, result, prev, calls>>
    /\ UNCHANGED tvars

\* Lines 126-130.
AgeStep ==
    /\ pc = "age"
    /\ IF IsSenior(customerAge)
       THEN /\ signals' = Append(signals, AgeSignal)
            /\ fraudScore' = AgeAdjustedScore(fraudScore)
       ELSE UNCHANGED <<signals, fraudScore>>
    /\ pc' = "urgency"
    /\ UNCHANGED <<amount, remittanceInfo, recipientName, customerAge, idx,
                   textToAnalyze, detectedScams, ai, result, prev, calls>>
    /\ UNCHANGED tvars

\* Lines 132-137.
UrgencyStep ==
    /\ pc = "urgency"
    /\ IF HasUrgency(textToAnalyze)
       THEN /\ signals' = Append(signals, UrgencySignal)
            /\ fraudScore' = UrgencyScore(fraudScore)
       ELSE UNCHANGED <<signals, fraudScore>>
    /\ pc' = "round"
    /\ UNCHANGED <<amount, remittanceInfo, recipientName, customerAge, idx,
                   textToAnalyze, detectedScams, ai, result, prev, calls>>
    /\ UNCHANGED tvars

\* Lines 139-143.
RoundAmountStep ==
    /\ pc = "round"
    /\ IF IsLargeRoundAmount(amount)
       THEN /\ signals' = Append(signals, RoundAmountSignal)
            /\ fraudScore' = RoundAmountScore(fraudScore)
       ELSE UNCHANGED <<signals, fraudScore>>
    /\ pc' = "ai"
    /\ UNCHANGED <<amount, remittanceInfo, recipientName, customerAge, idx,
                   textToAnalyze, detectedScams, ai, result, prev, calls>>
    /\ UNCHANGED tvars

\* Lines 145-159, the enhancement is not attempted: the score is below 50,
\* nothing was detected, or AI_INTEGRATIONS_OPENAI_BASE_URL is not set.
AISkip ==
    /\ pc = "ai"
    /\ ai' = "skipped"
    /\ pc' = "return"
    /\ UNCHANGED <<amount, remittanceInfo, recipientName, customerAge, idx,
                   textToAnalyze, fraudScore, signals, detectedScams, result,
                   prev, calls>>
    /\ UNCHANGED tvars

\* Lines 145-159, the enhancement is attempted (the environment variable is set).
AIEnhance ==
    /\ pc = "ai"
    /\ fraudScore >= 50 * Scale
    /\ Len(detectedScams) > 0
    /\ \E aiAnalysis \in enhanceWithAI :
        /\ signals' = IF Len(aiAnalysis.additionalSignals) = 1
                      THEN signals \o aiAnalysis.additionalSignals[1]
                      ELSE signals
        /\ fraudScore' = IF Len(aiAnalysis.adjustedScore) = 1 /\ aiAnalysis.adjustedScore[1] # 0
                         THEN Min(aiAnalysis.adjustedScore[1] * Scale, 95 * Scale)
                         ELSE fraudScore
        /\ ai' = IF aiAnalysis.failed THEN "failed" ELSE "enhanced"
    /\ pc' = "return"
    /\ UNCHANGED <<amount, remittanceInfo, recipientName, customerAge, idx,
                   textToAnalyze, detectedScams, result, prev, calls>>
    /\ UNCHANGED tvars

\* Lines 161-168.
Return ==
    /\ pc = "return"
    /\ result' = << [ fraudScore |-> MathRound(fraudScore),
                      fraudFlag |-> FraudFlag(fraudScore),
                      detectedScams |-> detectedScams,
                      signals |-> signals ] >>
    /\ pc' = "done"
    /\ UNCHANGED <<amount, remittanceInfo, recipientName, customerAge, idx,
                   textToAnalyze, fraudScore, signals, detectedScams, ai,
                   prev, calls>>
    /\ UNCHANGED tvars

\* The keywords (triggers and urgency words) a text matches.
AllKeywords ==
    UNION { { SCAM_PATTERNS[i].triggerWords[j] : j \in 1..Len(SCAM_PATTERNS[i].triggerWords) } :
            i \in 1..Len(SCAM_PATTERNS) }
        \cup { urgencyWords[i] : i \in 1..Len(urgencyWords) }

MatchedKeywords(text) == { w \in AllKeywords : includes(text, w) }

\* The caller analyses the same payment again with a longer remittance text
\* (same recipient, same amount, same age).
Extend ==
    /\ pc = "done"
    /\ calls < MaxExtend
    /\ \E f \in Fragments : remittanceInfo' = remittanceInfo \o " " \o f
    /\ prev' = << [ fraudScore |-> result[1].fraudScore,
                    fraudFlag |-> result[1].fraudFlag,
                    matched |-> MatchedKeywords(textToAnalyze) ] >>
    /\ calls' = calls + 1
    /\ Reset
    /\ UNCHANGED <<amount, recipientName, customerAge>>
    /\ UNCHANGED tvars

Next ==
    \/ Enter
    \/ PatternStep
    \/ AgeStep
    \/ UrgencyStep
    \/ RoundAmountStep
    \/ AISkip
    \/ AIEnhance
    \/ Return
    \/ Extend

Spec == Init /\ [][Next]_vars

-----------------------------------------------------------------------------
(* analyzeFraud as a function of its arguments: the rule-based statements  *)
(* (lines 76-143) run without an await, so a caller sees them as one step. *)
(* The value is the record of the locals before the AI enhancement.        *)

RECURSIVE PatternLoop(_, _, _, _)
PatternLoop(i, text, a, st) ==
    IF i > Len(SCAM_PATTERNS) THEN st
    ELSE LET pattern == SCAM_PATTERNS[i]
             matchedTriggers == MatchedTriggers(text, pattern)
             matchCount == Len(matchedTriggers)
             detected == IsDetected(matchCount, pattern)
             banded == AmountMatches(a, matchCount, pattern)
             score1 == IF detected
                       THEN ScoreWithConfidence(st.fraudScore, Confidence(matchCount, pattern))
                       ELSE st.fraudScore
             signals1 == IF detected
                         THEN Append(st.signals, DetectedSignal(pattern, matchedTriggers))
                         ELSE st.signals
         IN  PatternLoop(i + 1, text, a,
                [ fraudScore |-> IF banded THEN ScoreWithAmountBand(score1) ELSE score1,
                  signals |-> IF banded THEN Append(signals1, AmountSignal(pattern))
                              ELSE signals1,
                  detectedScams |-> IF detected
                                    THEN Append(st.detectedScams,
                                                ScamEntry(pattern, matchedTriggers))
                                    ELSE st.detectedScams ])

RuleBasedAnalysis(a, rem, rec, age) ==
    LET text == TextToAnalyze(rem, rec)
        s0 == PatternLoop(1, text, a,
                          [ fraudScore |-> 0, signals |-> <<>>, detectedScams |-> <<>> ])
        s1 == IF IsSenior(age)
              THEN [ s0 EXCEPT !.signals = Append(@, AgeSignal),
                               !.fraudScore = AgeAdjustedScore(@) ]
              ELSE s0
        s2 == IF HasUrgency(text)
              THEN [ s1 EXCEPT !.signals = Append(@, UrgencySignal),
                               !.fraudScore = UrgencyScore(@) ]
              ELSE s1
    IN  IF IsLargeRoundAmount(a)
        THEN [ s2 EXCEPT !.signals = Append(@, RoundAmountSignal),
                         !.fraudScore = RoundAmountScore(@) ]
        ELSE s2

\* Lines 161-168: the value analyzeFraud returns for the locals st.
FraudResultOf(st) ==
    [ fraudScore |-> MathRound(st.fraudScore),
      fraudFlag |-> FraudFlag(st.fraudScore),
      detectedScams |-> st.detectedScams,
      signals |-> st.signals ]

-----------------------------------------------------------------------------
(* What the claims speak of, stated from the inputs of the call            *)

\* The analysed text of the current call: remittanceInfo + ' ' + recipientName,
\* compared without regard to case.
ClaimText == toLowerCase(remittanceInfo \o " " \o recipientName)

ClaimTriggers(i) == SCAM_PATTERNS[i].triggerWords

\* The positions of the trigger words of pattern i found in the text t.
ClaimMatchesIn(t, i) ==
    { j \in 1..Len(ClaimTriggers(i)) : includes(t, toLowerCase(ClaimTriggers(i)[j])) }

RECURSIVE ClaimMatchesFrom(_, _)
ClaimMatchesFrom(t, i) ==
    IF i > Len(SCAM_PATTERNS) THEN <<>>
    ELSE << ClaimMatchesIn(t, i) >> \o ClaimMatchesFrom(t, i + 1)

\* For every pattern of the catalog, the positions of its matched triggers.
ClaimMatches == LET t == ClaimText IN ClaimMatchesFrom(t, 1)

\* In the operators below M is ClaimMatches (or the matches of another text).
ClaimMatchCount(M, i) == Cardinality(M[i])

\* min(matchCount / numberOfTriggerWords * 100, 95) >= confidenceThreshold * 100,
\* with both sides multiplied by the number of trigger words.
ClaimDetected(M, i) ==
    Min(ClaimMatchCount(M, i) * 100, 95 * Len(ClaimTriggers(i)))
        >= SCAM_PATTERNS[i].confidenceThreshold * Len(ClaimTriggers(i))

\* min(matchCount / numberOfTriggerWords * 100, 95), in 1/Scale points.
ClaimConfidence(M, i) ==
    LET c == (ClaimMatchCount(M, i) * 100 * Scale) \div Len(ClaimTriggers(i))
    IN  IF c > 95 * Scale THEN 95 * Scale ELSE c

\* typicalAmountMin <= amount <= typicalAmountMax, bounds inclusive.
ClaimInBand(i) ==
    /\ ~amount.nan
    /\ SCAM_PATTERNS[i].typicalAmountMin * 100 <= amount.cents
    /\ amount.cents <= SCAM_PATTERNS[i].typicalAmountMax * 100

ClaimBandBonus(M, i) == ClaimMatchCount(M, i) > 0 /\ ClaimInBand(i)

SetMax(S) == CHOOSE m \in S : \A n \in S : n <= m

Range(seq) == { seq[i] : i \in 1..Len(seq) }

Returned == result[1]

-----------------------------------------------------------------------------
\* C1: for every input, the returned fraudFlag is true if and only if the
\* returned (rounded) fraudScore is at least 60.
ThmC1_FlagIffScoreAtLeast60 ==
    pc = "done" => (Returned.fraudFlag <=> Returned.fraudScore >= 60)

\* A call that returned 63, rounded up from 62.5, with the flag set.
WitC1_FlaggedAt63 ==
    pc = "done" /\ fraudScore * 2 = 125 * Scale /\ Returned.fraudScore = 63
        /\ Returned.fraudFlag

\* C2: for every input and every combination of pattern matches, amount-band
\* bonus, age multiplier, urgency bonus and round-amount bonus, the returned
\* fraudScore is an integer in 0..100.
ThmC2_ScoreIn0To100 ==
    pc = "done" => Returned.fraudScore \in 0..100

\* A call in which a pattern was detected and the age multiplier, the urgency
\* bonus and the round-amount bonus all applied.
WitC2_AllBonusesApplied ==
    /\ pc = "done"
    /\ Len(Returned.detectedScams) > 0
    /\ { AgeSignal, UrgencySignal, RoundAmountSignal } \subseteq Range(Returned.signals)
    /\ \E i \in 1..Len(SCAM_PATTERNS) : AmountSignal(SCAM_PATTERNS[i]) \in Range(Returned.signals)
    /\ Returned.fraudScore = 95

\* The detected patterns the claim expects: catalog order, each with its
\* confidence and the trigger words matched, in the order of the catalog.
RECURSIVE ClaimExpectedScams(_, _)
ClaimExpectedScams(M, i) ==
    IF i > Len(SCAM_PATTERNS) THEN <<>>
    ELSE IF ClaimDetected(M, i)
         THEN << [ name |-> SCAM_PATTERNS[i].name,
                   confidence |-> ClaimConfidence(M, i),
                   matchedTriggers |->
                       SelectSeq(ClaimTriggers(i),
                                 LAMBDA w : \E j \in M[i] : ClaimTriggers(i)[j] = w) ] >>
              \o ClaimExpectedScams(M, i + 1)
         ELSE ClaimExpectedScams(M, i + 1)

ReturnedScams ==
    [ k \in 1..Len(Returned.detectedScams) |->
        [ name |-> Returned.detectedScams[k].name,
          confidence |-> Returned.detectedScams[k].confidence,
          matchedTriggers |-> Returned.detectedScams[k].matchedTriggers ] ]

\* C3: a catalog pattern is in detectedScams if and only if
\* min(matchCount / numberOfTriggerWords * 100, 95) >= confidenceThreshold * 100,
\* matchCount counting the trigger words found case-insensitively in
\* remittanceInfo + ' ' + recipientName; detectedScams lists the detected
\* patterns in catalog order, each with that confidence and its matched triggers.
ThmC3_DetectedIffConfidenceReachesThreshold ==
    pc = "done" => LET M == ClaimMatches IN ReturnedScams = ClaimExpectedScams(M, 1)

\* Two patterns detected from a text with capital letters, the later one of
\* the catalog written first in the text, and a third pattern with a matched
\* trigger that stays below its threshold.
WitC3_TwoDetectedOneBelowThreshold ==
    /\ pc = "done"
    /\ Len(Returned.detectedScams) = 2
    /\ Returned.detectedScams[1].name = "IRS Tax Scam"
    /\ Returned.detectedScams[2].name = "Tech Support Scam"
    /\ remittanceInfo # toLowerCase(remittanceInfo)
    /\ LET M == ClaimMatches
       IN  \E i \in 1..Len(SCAM_PATTERNS) : ClaimMatchCount(M, i) > 0 /\ ~ClaimDetected(M, i)

\* The contributions to the running score: the confidence of every detected
\* pattern, 70 for every pattern with the amount-band bonus, and 0.
ClaimContributions(M) ==
    { ClaimConfidence(M, i) : i \in { k \in 1..Len(SCAM_PATTERNS) : ClaimDetected(M, k) } }
        \cup { 70 * Scale : i \in { k \in 1..Len(SCAM_PATTERNS) : ClaimBandBonus(M, k) } }
        \cup { 0 }

\* C4: after the pattern loop the running score is the maximum (not the sum)
\* of the confidences of the detected patterns and of 70 for each pattern with
\* the amount-band bonus, and 0 if there are none.
ThmC4_LoopScoreIsMaximum ==
    pc = "age" => LET M == ClaimMatches IN fraudScore = SetMax(ClaimContributions(M))

\* The loop has ended with two detected patterns of different confidence and
\* no band bonus: the score is the larger confidence.
WitC4_TwoContributions ==
    /\ pc = "age"
    /\ Len(detectedScams) = 2
    /\ detectedScams[1].confidence < detectedScams[2].confidence
    /\ fraudScore = detectedScams[2].confidence
    /\ LET M == ClaimMatches IN \A i \in 1..Len(SCAM_PATTERNS) : ~ClaimBandBonus(M, i)

\* The step of this transition appended exactly the signal sig.
Appended(sig) == signals' = Append(signals, sig)

\* C5: in the loop iteration of each catalog pattern the amount-band bonus
\* (an 'Amount matches ...' signal appended last, score raised to at least 70)
\* is applied exactly when at least one trigger of the pattern matched and
\* typicalAmountMin <= amount <= typicalAmountMax, detected or not; with no
\* matched trigger the iteration changes neither score nor signals.
ThmC5_BandBonusIffMatchAndInBand ==
    [][ pc = "loop" =>
          LET M == ClaimMatches
              sig == AmountSignal(SCAM_PATTERNS[idx])
              applied == /\ Len(signals') > Len(signals)
                         /\ signals'[Len(signals')] = sig
              scored == IF ClaimDetected(M, idx)
                        THEN Max(fraudScore, ClaimConfidence(M, idx))
                        ELSE fraudScore
          IN  /\ applied <=> (ClaimMatchCount(M, idx) > 0 /\ ClaimInBand(idx))
              /\ applied => fraudScore' = Max(scored, 70 * Scale)
              /\ ~applied => fraudScore' = scored /\ sig \notin Range(signals')
              /\ ClaimMatchCount(M, idx) = 0 =>
                    fraudScore' = fraudScore /\ signals' = signals ]_vars

\* The loop has ended; the amount is the inclusive upper bound of the Tech
\* Support band, a Tech Support trigger matched without the pattern being
\* detected, and the bonus was applied: score 70, band signal last.
WitC5_BonusWithoutDetectionAtBound ==
    /\ pc = "age"
    /\ amount = Dollars(2000)
    /\ detectedScams = <<>>
    /\ fraudScore = 70 * Scale
    /\ Len(signals) > 0
    /\ signals[Len(signals)] = "Amount matches Tech Support Scam pattern ($200-$2000)"

\* C6: when customerAge >= 65 the running score is replaced by
\* min(score * 1.2, 95) and the senior signal is appended; when customerAge is
\* absent or below 65 the step changes neither score nor signals.
ThmC6_AgeAdjustment ==
    [][ pc = "age" =>
          IF customerAge # <<>> /\ customerAge[1] >= 65
          THEN /\ 10 * fraudScore' = Min(12 * fraudScore, 950 * Scale)
               /\ Appended("Customer is in senior age group (higher vulnerability)")
          ELSE fraudScore' = fraudScore /\ signals' = signals ]_vars

\* The age step has acted for a customer of exactly 65: 70 became 84.
WitC6_SeniorAt65 ==
    /\ pc = "urgency"
    /\ customerAge = << 65 >>
    /\ fraudScore = 84 * Scale
    /\ Len(signals) > 0
    /\ signals[Len(signals)] = AgeSignal

ClaimUrgencyWords ==
    { "urgent", "immediately", "right now", "asap", "today", "hurry", "quick" }

ClaimUrgencyFound(t) == { w \in ClaimUrgencyWords : includes(t, w) }

\* C7: if the lower-cased text contains at least one of the seven urgency
\* keywords, exactly one urgency signal is appended and the score becomes
\* min(score + 15, 95), however many keywords occur; otherwise the step
\* changes neither score nor signals.
ThmC7_UrgencyBonus ==
    [][ pc = "urgency" =>
          IF ClaimUrgencyFound(ClaimText) # {}
          THEN /\ fraudScore' = Min(fraudScore + 15 * Scale, 95 * Scale)
               /\ Appended("Urgent language detected (common pressure tactic)")
          ELSE fraudScore' = fraudScore /\ signals' = signals ]_vars

\* The urgency step has acted on a text with two urgency keywords: one
\* signal, 15 points.
WitC7_TwoKeywordsOneBonus ==
    /\ pc = "round"
    /\ Cardinality(ClaimUrgencyFound(ClaimText)) = 2
    /\ fraudScore = 15 * Scale
    /\ signals = << UrgencySignal >>

\* C8: the round-amount bonus (score becomes min(score + 10, 95), one signal
\* appended) is applied exactly when amount >= 1000 and amount mod 500 = 0;
\* for any other amount the step changes neither score nor signals.
ThmC8_RoundAmountBonus ==
    [][ pc = "round" =>
          IF ~amount.nan /\ amount.cents >= 100000 /\ amount.cents % 50000 = 0
          THEN /\ fraudScore' = Min(fraudScore + 10 * Scale, 95 * Scale)
               /\ Appended("Large round amount (common in scams)")
          ELSE fraudScore' = fraudScore /\ signals' = signals ]_vars

\* The round-amount step has acted on the amount 1000.00, the smallest round
\* amount: 10 points and the signal.
WitC8_BonusAt1000 ==
    /\ pc = "ai"
    /\ amount = Dollars(1000)
    /\ fraudScore = 10 * Scale
    /\ signals = << RoundAmountSignal >>

ClaimKeywords ==
    ClaimUrgencyWords
        \cup UNION { Range(ClaimTriggers(i)) : i \in 1..Len(SCAM_PATTERNS) }

ClaimKeywordsFound(t) == { w \in ClaimKeywords : includes(t, w) }

\* C9: for fixed amount and age, a longer text that matches every keyword
\* matched before and one more urgency or trigger keyword never gives a lower
\* final fraudScore and never turns fraudFlag from true to false.
ThmC9_ScoreMonotoneInKeywords ==
    (pc = "done" /\ prev # <<>>) =>
        (prev[1].matched \subseteq ClaimKeywordsFound(ClaimText) =>
            /\ Returned.fraudScore >= prev[1].fraudScore
            /\ prev[1].fraudFlag => Returned.fraudFlag)

\* The second call matched exactly one keyword more than the first, an
\* urgency keyword, and returned a higher score.
WitC9_OneMoreUrgencyKeyword ==
    /\ pc = "done"
    /\ prev # <<>>
    /\ LET before == prev[1].matched
           after == ClaimKeywordsFound(ClaimText)
       IN  /\ before \subseteq after
           /\ Cardinality(after \ before) = 1
           /\ (after \ before) \subseteq ClaimUrgencyWords
    /\ Returned.fraudScore > prev[1].fraudScore

\* C10: for the remittance text "URGENT: IRS Tax Penalty Payment - Account will
\* be suspended", amount 2500.00 and age 72, 'IRS Tax Scam' is in detectedScams,
\* the urgency bonus and the age multiplier are applied, the final score is at
\* least 60 and fraudFlag is true.
CexC10_ScenarioDetectsIRSTaxScam ==
    ( /\ pc = "done"
      /\ calls = 0
      /\ remittanceInfo = "URGENT: IRS Tax Penalty Payment - Account will be suspended"
      /\ amount = Dollars(2500)
      /\ customerAge = << 72 >> ) =>
        /\ \E k \in 1..Len(Returned.detectedScams) :
              Returned.detectedScams[k].name = "IRS Tax Scam"
        /\ { UrgencySignal, AgeSignal } \subseteq Range(Returned.signals)
        /\ Returned.fraudScore >= 60
        /\ Returned.fraudFlag

-----------------------------------------------------------------------------
\* C12: graceful degradation.  When the AI enhancement fails (the call
\* throws, times out or its content does not parse, all of which end in the
\* catch block of enhanceWithAI), the step leaves the score, the signals and
\* the detected scams as the rule-based statements computed them and goes on
\* to the return statement, and the value returned (fraudScore, fraudFlag,
\* detectedScams, signals) is exactly the one the rule-based statements give
\* for the arguments of the call.
ThmC12_FailedEnhancementKeepsRuleBasedResult ==
    /\ []((pc = "done" /\ ai = "failed") =>
            Returned = FraudResultOf(RuleBasedAnalysis(amount, remittanceInfo,
                                                       recipientName, customerAge)))
    /\ [][(pc = "ai" /\ ai' = "failed") =>
            /\ pc' = "return"
            /\ fraudScore' = fraudScore
            /\ signals' = signals
            /\ detectedScams' = detectedScams]_vars

\* A call in which the enhancement was attempted (score at least 50, a scam
\* detected), failed, and the call returned.
WitC12_ReturnedAfterFailedEnhancement ==
    /\ pc = "done"
    /\ ai = "failed"
    /\ Returned.fraudScore >= 50
    /\ Len(Returned.detectedScams) > 0
    /\ Returned.fraudFlag

-----------------------------------------------------------------------------
(* Part 2.  Strings and numbers of the transformers.                       *)
(* Indices of the JavaScript methods are 0-based and end-exclusive, those  *)
(* of SubSeq 1-based and inclusive.                                        *)

CharAt(s, i) == SubSeq(s, i, i)

SetMinimum(S) == CHOOSE x \in S : \A y \in S : x <= y

Whitespace == { " ", "\t", "\n", "\r" }

\* String.prototype.trim
trim(s) ==
    IF \A i \in 1..Len(s) : CharAt(s, i) \in Whitespace THEN ""
    ELSE LET first == CHOOSE i \in 1..Len(s) :
                        /\ CharAt(s, i) \notin Whitespace
                        /\ \A j \in 1..(i - 1) : CharAt(s, j) \in Whitespace
             last == CHOOSE i \in 1..Len(s) :
                        /\ CharAt(s, i) \notin Whitespace
                        /\ \A j \in (i + 1)..Len(s) : CharAt(s, j) \in Whitespace
         IN  SubSeq(s, first, last)

trimStart(s) ==
    IF \A i \in 1..Len(s) : CharAt(s, i) \in Whitespace THEN ""
    ELSE LET first == CHOOSE i \in 1..Len(s) :
                        /\ CharAt(s, i) \notin Whitespace
                        /\ \A j \in 1..(i - 1) : CharAt(s, j) \in Whitespace
         IN  SubSeq(s, first, Len(s))

\* String.prototype.substring(start, end) and substring(start), for
\* 0 <= start <= end: both are clamped to the length of the string.
substring(s, start, end) == SubSeq(s, Min(start, Len(s)) + 1, Min(end, Len(s)))

substringFrom(s, start) == SubSeq(s, Min(start, Len(s)) + 1, Len(s))

startsWith(s, prefix) == Len(s) >= Len(prefix) /\ SubSeq(s, 1, Len(prefix)) = prefix

\* String.prototype.split with a one-character separator.
RECURSIVE split(_, _)
split(s, sep) ==
    IF \A i \in 1..Len(s) : CharAt(s, i) # sep THEN << s >>
    ELSE LET i == CHOOSE k \in 1..Len(s) :
                    /\ CharAt(s, k) = sep
                    /\ \A j \in 1..(k - 1) : CharAt(s, j) # sep
         IN  << SubSeq(s, 1, i - 1) >> \o split(SubSeq(s, i + 1, Len(s)), sep)

\* Array.prototype.indexOf of an element that occurs: its first position.
indexOf(lines, line) == SetMinimum({ i \in 1..Len(lines) : lines[i] = line })

\* String.prototype.replace(from, to) with strings: the first occurrence only.
replace(s, from, to) ==
    LET at == { i \in 1..(Len(s) - Len(from) + 1) : SubSeq(s, i, i + Len(from) - 1) = from }
    IN  IF at = {} THEN s
        ELSE LET i == SetMinimum(at)
             IN  SubSeq(s, 1, i - 1) \o to \o SubSeq(s, i + Len(from), Len(s))

DecimalDigits == "0123456789"

IsDigit(c) == \E i \in 1..Len(DecimalDigits) : CharAt(DecimalDigits, i) = c

DigitValue(c) == (CHOOSE i \in 1..Len(DecimalDigits) : CharAt(DecimalDigits, i) = c) - 1

IsUpperCase(c) == c \in DOMAIN LowerCaseOf

\* Length of the longest prefix of s made of decimal digits.
DigitPrefixLen(s) ==
    IF \A i \in 1..Len(s) : IsDigit(CharAt(s, i)) THEN Len(s)
    ELSE (CHOOSE i \in 1..Len(s) :
             /\ ~IsDigit(CharAt(s, i))
             /\ \A j \in 1..(i - 1) : IsDigit(CharAt(s, j))) - 1

RECURSIVE DigitsValue(_)
DigitsValue(d) ==
    IF Len(d) = 0 THEN 0
    ELSE DigitsValue(SubSeq(d, 1, Len(d) - 1)) * 10 + DigitValue(CharAt(d, Len(d)))

\* parseInt(s): leading white space, an optional sign, then the longest run
\* of decimal digits; NaN when there is none.  (A 0x prefix selects radix 16
\* in JavaScript; no text of this model has one.)
parseInt(s) ==
    LET t == trimStart(s)
        signed == startsWith(t, "-") \/ startsWith(t, "+")
        digits == IF signed THEN substringFrom(t, 1) ELSE t
        k == DigitPrefixLen(digits)
    IN  IF k = 0 THEN [ nan |-> TRUE, value |-> 0 ]
        ELSE [ nan |-> FALSE,
               value |-> (IF startsWith(t, "-") THEN -1 ELSE 1)
                            * DigitsValue(SubSeq(digits, 1, k)) ]

\* parseInt(s) / 100, as an amount.
ParseIntHundredths(s) ==
    LET n == parseInt(s) IN IF n.nan THEN NaN ELSE Cents(n.value)

\* The text without its trailing zeros.
WithoutTrailingZeros(d) ==
    IF \A i \in 1..Len(d) : CharAt(d, i) = "0" THEN ""
    ELSE SubSeq(d, 1, CHOOSE i \in 1..Len(d) :
                        /\ CharAt(d, i) # "0"
                        /\ \A j \in (i + 1)..Len(d) : CharAt(d, j) = "0")

\* parseFloat(s) for a text of digits, points and commas (all that the
\* :32A: pattern lets through): an optional sign, digits, and one point
\* followed by digits; whatever follows is ignored; NaN when there is no
\* digit.  The first two fraction digits are the cents, the others the
\* digits beyond the cent.
parseFloat(s) ==
    LET t == trimStart(s)
        signed == startsWith(t, "-") \/ startsWith(t, "+")
        body == IF signed THEN substringFrom(t, 1) ELSE t
        k == DigitPrefixLen(body)
        rest == substringFrom(body, k)
        fraction == IF startsWith(rest, ".")
                    THEN SubSeq(rest, 2, 1 + DigitPrefixLen(substringFrom(rest, 1)))
                    ELSE ""
    IN  IF k = 0 /\ Len(fraction) = 0 THEN NaN
        ELSE [ nan |-> FALSE,
               cents |-> (IF startsWith(t, "-") THEN -1 ELSE 1)
                            * (DigitsValue(SubSeq(body, 1, k)) * 100
                               + DigitsValue(substring(fraction \o "00", 0, 2))),
               beyond |-> WithoutTrailingZeros(substringFrom(fraction, 2)) ]

\* Number.prototype.toFixed(2) of an amount that is a whole number of cents.
toFixed2(a) ==
    IF a.nan THEN "NaN"
    ELSE LET c == IF a.cents < 0 THEN -a.cents ELSE a.cents
             hundredths == c % 100
         IN  (IF a.cents < 0 THEN "-" ELSE "")
                \o ToString(c \div 100) \o "."
                \o (IF hundredths < 10 THEN "0" ELSE "") \o ToString(hundredths)

-----------------------------------------------------------------------------
(* The clock.  now counts milliseconds since ClockStart, a midnight (UTC)  *)
(* early in a month; Date.now() and toISOString are formatted from it.     *)

ClockStartSeconds == 1793923200

ClockStartDay == 6

ClockStartMonth == "2026-11-"

Pad(n, width) ==
    LET text == ToString(n)
    IN  SubSeq("000", 1, width - Len(text)) \o text

\* 'MSG' + Date.now() needs the decimal text of Date.now().
DateNowText(t) == ToString(ClockStartSeconds + t \div 1000) \o Pad(t % 1000, 3)

\* new Date().toISOString().split('T')[0]
ISODate(t) == ClockStartMonth \o Pad(ClockStartDay + t \div 86400000, 2)

\* new Date().toISOString()
toISOString(t) ==
    LET ms == t % 86400000
    IN  ISODate(t) \o "T" \o Pad(ms \div 3600000, 2) \o ":"
            \o Pad((ms \div 60000) % 60, 2) \o ":"
            \o Pad((ms \div 1000) % 60, 2) \o "." \o Pad(ms % 1000, 3) \o "Z"

-----------------------------------------------------------------------------
(* Optional fields.  An absent (undefined) field is <<>>, a present one is *)
(* <<text>>.                                                               *)

Absent == <<>>

Present(text) == << text >>

\* field || fallback: undefined and the empty string are both falsy.
OrElse(field, fallback) ==
    IF field = Absent THEN fallback
    ELSE IF field[1] = "" THEN fallback ELSE field[1]

MapTrim(lines) == [ i \in 1..Len(lines) |-> trim(lines[i]) ]

-----------------------------------------------------------------------------
(* The MT103 transformer                                                   *)

NoMT103Data ==
    [ transactionReference |-> Absent, valueDate |-> Absent, currency |-> Absent,
      amount |-> Absent, orderingCustomer |-> Absent, beneficiary |-> Absent,
      remittanceInfo |-> Absent, detailsOfCharges |-> Absent ]

IsAmountChar(c) == IsDigit(c) \/ c = "," \/ c = "."

\* text.match(/(\d{6})([A-Z]{3})([\d,\.]+)/): the leftmost match, the third
\* group as long as possible; <<>> when there is no match.
Match32A(text) ==
    LET starts == { i \in 1..(Len(text) - 9) :
                      /\ \A j \in 0..5 : IsDigit(CharAt(text, i + j))
                      /\ \A j \in 6..8 : IsUpperCase(CharAt(text, i + j))
                      /\ IsAmountChar(CharAt(text, i + 9)) }
    IN  IF starts = {} THEN <<>>
        ELSE LET i == SetMinimum(starts)
                 stops == { j \in (i + 9)..Len(text) : ~IsAmountChar(CharAt(text, j)) }
                 last == IF stops = {} THEN Len(text) ELSE SetMinimum(stops) - 1
             IN  << SubSeq(text, i, i + 5), SubSeq(text, i + 6, i + 8),
                    SubSeq(text, i + 9, last) >>

\* The lines after position i up to the next line that starts with ':',
\* each preceded by a line feed.
RECURSIVE FollowingLines(_, _)
FollowingLines(lines, i) ==
    IF i > Len(lines) THEN ""
    ELSE IF startsWith(lines[i], ":") THEN ""
    ELSE "\n" \o lines[i] \o FollowingLines(lines, i + 1)

\* The loops of :50K:, :59: and :70: (tagLength is 5, 4 and 4).
MultiLineField(lines, line, tagLength) ==
    LET startIndex == indexOf(lines, line)
    IN  trim(trim(substringFrom(lines[startIndex], tagLength))
                \o FollowingLines(lines, startIndex + 1))

\* The body of the loop over the lines (part_009 lines 19-76).
MT103Line(lines, line, data) ==
    IF startsWith(line, ":20:")
    THEN [ data EXCEPT !.transactionReference = Present(trim(substringFrom(line, 4))) ]
    ELSE IF startsWith(line, ":32A:")
    THEN LET match == Match32A(substringFrom(line, 5))
         IN  IF match = <<>> THEN data
             ELSE [ data EXCEPT !.valueDate = Present(match[1]),
                                !.currency = Present(match[2]),
                                !.amount = Present(replace(match[3], ",", ".")) ]
    ELSE IF startsWith(line, ":50K:")
    THEN [ data EXCEPT !.orderingCustomer = Present(MultiLineField(lines, line, 5)) ]
    ELSE IF startsWith(line, ":59:")
    THEN [ data EXCEPT !.beneficiary = Present(MultiLineField(lines, line, 4)) ]
    ELSE IF startsWith(line, ":70:")
    THEN [ data EXCEPT !.remittanceInfo = Present(MultiLineField(lines, line, 4)) ]
    ELSE IF startsWith(line, ":71A:")
    THEN [ data EXCEPT !.detailsOfCharges = Present(trim(substringFrom(line, 5))) ]
    ELSE data

RECURSIVE MT103Lines(_, _, _)
MT103Lines(lines, i, data) ==
    IF i > Len(lines) THEN data
    ELSE MT103Lines(lines, i + 1, MT103Line(lines, lines[i], data))

parseMT103(content) == MT103Lines(MapTrim(split(content, "\n")), 1, NoMT103Data)

\* Array.prototype.slice(1)
SliceFrom1(lines) == SubSeq(lines, 2, Len(lines))

\* a || b for plain strings.
OrText(text, fallback) == IF text = "" THEN fallback ELSE text

\* The template literal of convertMT103ToISO20022, with its placeholders.
MT103Document(msgId, creDtTm, currency, amountText, settlementDate, chargeBearer, senderName, senderAddress, beneficiaryName, beneficiaryAddress, remittance) ==
    join(<< "<?xml version=\"1.0\" encoding=\"UTF-8\"?>",
            "<Document xmlns=\"urn:iso:std:iso:20022:tech:xsd:pacs.008.001.08\">",
            "  <FIToFICstmrCdtTrf>",
            "    <GrpHdr>",
            "      <MsgId>" \o msgId \o "</MsgId>",
            "      <CreDtTm>" \o creDtTm \o "</CreDtTm>",
            "      <NbOfTxs>1</NbOfTxs>",
            "      <SttlmInf>",
            "        <SttlmMtd>INGA</SttlmMtd>",
            "      </SttlmInf>",
            "    </GrpHdr>",
            "    <CdtTrfTxInf>",
            "      <PmtId>",
            "        <InstrId>" \o msgId \o "</InstrId>",
            "        <EndToEndId>" \o msgId \o "</EndToEndId>",
            "      </PmtId>",
            "      <IntrBkSttlmAmt Ccy=\"" \o currency \o "\">" \o amountText
                \o "</IntrBkSttlmAmt>",
            "      <IntrBkSttlmDt>" \o settlementDate \o "</IntrBkSttlmDt>",
            "      <ChrgBr>" \o chargeBearer \o "</ChrgBr>",
            "      <Dbtr>",
            "        <Nm>" \o senderName \o "</Nm>",
            "        <PstlAdr>",
            "          <AdrLine>" \o senderAddress \o "</AdrLine>",
            "        </PstlAdr>",
            "      </Dbtr>",
            "      <Cdtr>",
            "        <Nm>" \o beneficiaryName \o "</Nm>",
            "        <PstlAdr>",
            "          <AdrLine>" \o beneficiaryAddress \o "</AdrLine>",
            "        </PstlAdr>",
            "      </Cdtr>",
            "      <RmtInf>",
            "        <Ustrd>" \o remittance \o "</Ustrd>",
            "      </RmtInf>",
            "    </CdtTrfTxInf>",
            "  </FIToFICstmrCdtTrf>",
            "</Document>" >>, "\n")

\* convertMT103ToISO20022(data), called when the clock shows t.
convertMT103ToISO20022(data, t) ==
    LET msgId == OrElse(data.transactionReference, "MSG" \o DateNowText(t))
        senderLines == split(OrElse(data.orderingCustomer, "Unknown Sender"), "\n")
        beneficiaryLines == split(OrElse(data.beneficiary, "Unknown Beneficiary"), "\n")
    IN  MT103Document(
            msgId,
            toISOString(t),
            OrElse(data.currency, "USD"),
            OrElse(data.amount, "0.00"),
            OrElse(data.valueDate, ISODate(t)),
            OrElse(data.detailsOfCharges, "SHAR"),
            OrText(senderLines[1], "Unknown"),
            OrText(join(SliceFrom1(senderLines), ", "), "Unknown Address"),
            OrText(beneficiaryLines[1], "Unknown"),
            OrText(join(SliceFrom1(beneficiaryLines), ", "), "Unknown Address"),
            OrElse(data.remittanceInfo, "Payment"))

-----------------------------------------------------------------------------
(* The NACHA transformer                                                   *)

NoNACHAData == [ batchHeader |-> Absent, entryDetail |-> Absent ]

\* The branch of a '5' line (part_008 lines 30-46).
BatchHeaderOf(line) ==
    [ companyName |-> trim(substring(line, 4, 20)),
      companyId |-> trim(substring(line, 40, 50)),
      standardEntryClass |-> trim(substring(line, 50, 53)),
      entryDescription |-> trim(substring(line, 53, 63)),
      effectiveEntryDate |-> trim(substring(line, 69, 75)) ]

\* The branch of a '6' line (part_008 lines 48-68).
EntryDetailOfOneBased(line) ==
    [ transactionCode |-> substring(line, 2, 3),
      receivingDFI |-> substring(line, 4, 11),
      checkDigit |-> substring(line, 12, 12),
      dfiAccountNumber |-> trim(substring(line, 13, 29)),
      amount |-> substring(line, 30, 39),
      individualId |-> trim(substring(line, 40, 54)),
      individualName |-> trim(substring(line, 55, 76)),
      traceNumber |-> trim(substring(line, 80, 94)) ]

EntryDetailOf(line) ==
    [ transactionCode |-> substring(line, 1, 3),
      receivingDFI |-> substring(line, 3, 11),
      checkDigit |-> substring(line, 11, 12),
      dfiAccountNumber |-> trim(substring(line, 12, 29)),
      amount |-> substring(line, 29, 39),
      individualId |-> trim(substring(line, 39, 54)),
      individualName |-> trim(substring(line, 54, 76)),
      traceNumber |-> trim(substring(line, 79, 94)) ]

\* A loop body that keeps the first record of each type.
NACHALineKeepingFirst(line, data) ==
    IF startsWith(line, "5") /\ data.batchHeader = Absent
    THEN [ data EXCEPT !.batchHeader = << BatchHeaderOf(line) >> ]
    ELSE IF startsWith(line, "6") /\ data.entryDetail = Absent
    THEN [ data EXCEPT !.entryDetail = << EntryDetailOf(line) >> ]
    ELSE data

\* The body of the loop over the lines (part_008 lines 28-69).
NACHALine(line, data) ==
    IF startsWith(line, "5")
    THEN [ data EXCEPT !.batchHeader = << BatchHeaderOf(line) >> ]
    ELSE IF startsWith(line, "6")
    THEN [ data EXCEPT !.entryDetail = << EntryDetailOf(line) >> ]
    ELSE data

RECURSIVE NACHALines(_, _, _)
NACHALines(lines, i, data) ==
    IF i > Len(lines) THEN data
    ELSE NACHALines(lines, i + 1, NACHALine(lines[i], data))

parseNACHA(content) ==
    NACHALines(SelectSeq(MapTrim(split(content, "\n")), LAMBDA line : Len(line) > 0),
               1, NoNACHAData)

\* record?.field || fallback
FieldOrElse(record, field, fallback) ==
    IF record = Absent THEN fallback ELSE OrText(record[1][field], fallback)

\* The template literal of convertNACHAToISO20022, with its placeholders.
NACHADocument(msgId, creDtTm, amountText, settlementDate, companyName, companyId, individualName, accountNumber, description) ==
    join(<< "<?xml version=\"1.0\" encoding=\"UTF-8\"?>",
            "<Document xmlns=\"urn:iso:std:iso:20022:tech:xsd:pacs.008.001.08\">",
            "  <FIToFICstmrCdtTrf>",
            "    <GrpHdr>",
            "      <MsgId>" \o msgId \o "</MsgId>",
            "      <CreDtTm>" \o creDtTm \o "</CreDtTm>",
            "      <NbOfTxs>1</NbOfTxs>",
            "      <SttlmInf>",
            "        <SttlmMtd>INDA</SttlmMtd>",
            "      </SttlmInf>",
            "    </GrpHdr>",
            "    <CdtTrfTxInf>",
            "      <PmtId>",
            "        <InstrId>" \o msgId \o "</InstrId>",
            "        <EndToEndId>" \o msgId \o "</EndToEndId>",
            "      </PmtId>",
            "      <IntrBkSttlmAmt Ccy=\"USD\">" \o amountText \o "</IntrBkSttlmAmt>",
            "      <IntrBkSttlmDt>" \o settlementDate \o "</IntrBkSttlmDt>",
            "      <ChrgBr>SHAR</ChrgBr>",
            "      <Dbtr>",
            "        <Nm>" \o companyName \o "</Nm>",
            "        <Id>",
            "          <OrgId>",
            "            <Othr>",
            "              <Id>" \o companyId \o "</Id>",
            "            </Othr>",
            "          </OrgId>",
            "        </Id>",
            "      </Dbtr>",
            "      <DbtrAcct>",
            "        <Id>",
            "          <Othr>",
            "            <Id>" \o companyId \o "</Id>",
            "          </Othr>",
            "        </Id>",
            "      </DbtrAcct>",
            "      <Cdtr>",
            "        <Nm>" \o individualName \o "</Nm>",
            "      </Cdtr>",
            "      <CdtrAcct>",
            "        <Id>",
            "          <Othr>",
            "            <Id>" \o accountNumber \o "</Id>",
            "          </Othr>",
            "        </Id>",
            "      </CdtrAcct>",
            "      <RmtInf>",
            "        <Ustrd>" \o description \o "</Ustrd>",
            "      </RmtInf>",
            "    </CdtTrfTxInf>",
            "  </FIToFICstmrCdtTrf>",
            "</Document>" >>, "\n")

\* convertNACHAToISO20022(data), called when the clock shows t.
convertNACHAToISO20022(data, t) ==
    NACHADocument(
        FieldOrElse(data.entryDetail, "traceNumber", "MSG" \o DateNowText(t)),
        toISOString(t),
        toFixed2(ParseIntHundredths(FieldOrElse(data.entryDetail, "amount", "0"))),
        FieldOrElse(data.batchHeader, "effectiveEntryDate", ISODate(t)),
        FieldOrElse(data.batchHeader, "companyName", "Unknown Company"),
        FieldOrElse(data.batchHeader, "companyId", "Unknown"),
        FieldOrElse(data.entryDetail, "individualName", "Unknown Individual"),
        FieldOrElse(data.entryDetail, "dfiAccountNumber", "Unknown"),
        FieldOrElse(data.batchHeader, "entryDescription", "Payment"))

-----------------------------------------------------------------------------
(* Bounds and input sets of the endpoints                                  *)

MaxRepeat == 1

\* How far the clock may have moved when a request is sent again: the same
\* millisecond, the next one, the next day.
ClockSteps == { 0, 1, 86400000 }

UserIds == { "user-1" }

MT103Scenario ==
    ":20:TRX-2025-003\n:32A:250315USD2500,00\n:50K:Margaret Johnson\n12 Oak Lane"
        \o "\n:59:IRS Payment Processing\nPO Box 9"
        \o "\n:70:URGENT: IRS Tax Penalty Payment - Account will be suspended\n:71A:OUR"

MT103NoReference == ":50K:John Doe\n:59:Jane Roe\n:70:Monthly Support"

MT103NoTag == "Payment of invoice 17\r\nthank you"

MT103Negative == ":20:NEG-1\n:32A:250315USD-2500,00\n:59:Jane Roe"

MT103Markup == ":20:REF<1>\n:32A:991231EUR100,00\n:59:<script>&\"'\n:70:Tom & Jerry's"

MT103Detected ==
    ":20:TRX-9\n:32A:250315USD2500,00\n:59:Jane Roe\n:70:IRS tax penalty arrest warrant"

MT103SameReference == ":20:TRX-2025-003\n:32A:250316USD10,00\n:59:Jane Roe"

\* An amount with a thousands separator, and an amount part without digits.
MT103Thousands == ":20:TH-1\n:32A:250315EUR1.234,56\n:59:Jane Roe"

MT103CommaOnly == ":20:CO-1\n:32A:250315USD,\n:59:Jane Roe"

\* A message in which one line text occurs twice.
MT103RepeatedLine ==
    ":20:DUP-1\n:32A:250315USD100,00\n:70:Invoice\nfirst part\n:71A:OUR\n:70:Invoice\nsecond part"

NACHAHeader ==
    "5220ACME CORP                           1234567890PPDPAYROLL         260115   1091000010000001"

NACHAHeaderIRS ==
    "5220TAX OFFICE                          1234567890PPDIRS TAX         260115   1091000010000001"

NACHAEntry ==
    "62209100001912345678         0000125000ID0001         JANE SMITH              0091000010000001"

NACHAEntryNegative ==
    "62209100001912345678         -000012500ID0001         JANE SMITH              0091000010000002"

NACHAEntryLarge ==
    "62209100001912345678         0013107201ID0001         JANE SMITH              0091000010000003"

NACHAEntryMarkup ==
    "62209100001912345678         0000000001ID0001         A&B <CO>                0091000010000004"

\* Entry-detail lines cut short: after the name, inside the amount, with
\* letters in the amount columns, before the amount.
NACHAEntryShort76 ==
    "62209100001912345678         0000250000ID0001         IRS PAYMENT           "

NACHAEntryShort35 == "62209100001912345678         000025"

NACHAEntryShort39 == "62209100001912345678         ABCDEFGHIJ"

NACHAEntryShort20 == "62209100001912345678"

\* A file whose entry-detail line is indented by two spaces.
NACHAIndented == NACHAHeader \o "\n  " \o NACHAEntry

\* A file of two batches with three entries, between a file header, an
\* addenda record and the control records.
NACHASeveralEntries ==
    "101 091000019 1234567890260115 1200A094101FIRST BANK             ACME CORP\n"
        \o NACHAHeaderIRS \o "\n" \o NACHAEntryMarkup \o "\n" \o NACHAEntryLarge
        \o "\n705INVOICE 4711\n822000000200182000020000000000000013107202\n"
        \o NACHAHeader \o "\n"
        \o "62209100001987654321         0000007500ID0002         JOHN DOE                0091000010000009"
        \o "\n822000000100091000010000000000000000007500\n9000002"

\* A file whose last entry-detail line is cut short before the amount.
NACHAShortLastEntry == NACHAHeader \o "\n" \o NACHAEntry \o "\n" \o NACHAEntryShort20

NACHAFileHeaderOnly ==
    "101 091000019 1234567890260115 1200A094101FIRST BANK             ACME CORP\n\n9000001"

SingleFiles ==
    { [ format |-> "MT103", content |-> c ] :
        c \in { MT103Scenario, MT103NoReference, MT103NoTag, "", MT103Negative, MT103Markup,
                MT103Detected, MT103Thousands, MT103CommaOnly, MT103RepeatedLine } }
    \cup
    { [ format |-> "NACHA", content |-> c ] :
        c \in { NACHAHeader \o "\n" \o NACHAEntry \o "\n",
                NACHAHeader \o "\n" \o NACHAEntryNegative,
                NACHAHeader \o "\n" \o NACHAEntryLarge,
                NACHAEntryMarkup,
                NACHAHeaderIRS \o "\n" \o NACHAEntryShort76,
                NACHAEntryShort35, NACHAEntryShort39, NACHAEntryShort20,
                NACHAFileHeaderOnly, "", NACHAIndented,
                NACHASeveralEntries, NACHAShortLastEntry } }
    \cup
    { [ format |-> "CSV", content |-> "id,amount\n1,2500.00" ],
      [ format |-> "mt103", content |-> MT103Scenario ] }

\* An element of the files array that is the JSON value null.  Spreading it
\* ({...file}) gives an object without format and content, for which the
\* empty texts stand.
NullFile == [ format |-> "", content |-> "", null |-> TRUE ]

IsNull(file) == "null" \in DOMAIN file

BatchFiles ==
    { [ format |-> "MT103", content |-> c ] :
        c \in { MT103Scenario, MT103SameReference, "" } }
    \cup
    { [ format |-> "NACHA", content |-> c ] :
        c \in { NACHAHeader \o "\n" \o NACHAEntry \o "\n",
                NACHAEntryShort39, NACHAEntryShort20 } }
    \cup
    { [ format |-> "CSV", content |-> "id,amount\n1,2500.00" ], NullFile }

Requests ==
    { [ route |-> "transform", userId |-> u, files |-> << f >> ] :
        u \in UserIds, f \in SingleFiles }
    \cup
    { [ route |-> "batch", userId |-> u, files |-> << f, g >> ] :
        u \in UserIds, f \in BatchFiles, g \in BatchFiles }
    \cup
    { [ route |-> "batch", userId |-> u, files |-> << f >> ] :
        u \in UserIds, f \in BatchFiles }
    \cup
    { [ route |-> "batch", userId |-> u, files |-> << >> ] : u \in UserIds }
    \cup
    { [ route |-> "batch", userId |-> u,
        files |-> << [ format |-> "NACHA", content |-> NACHASeveralEntries ] >> ] :
        u \in UserIds }

-----------------------------------------------------------------------------
(* The transactions table.  transactionId is declared unique; amount is    *)
(* declared real, a 4-byte binary floating-point number with a 24-bit      *)
(* significand, so a row keeps significand * 2^exponent, the number of     *)
(* that form nearest to the decimal amount (ties to the even significand). *)
(* Modelled for amounts below 2^24 dollars.                                *)

SignificandBits == 24

RECURSIVE Pow2(_)
Pow2(k) == IF k = 0 THEN 1 ELSE 2 * Pow2(k - 1)

\* q + r / d rounded to the nearest integer, ties to even (0 <= r < d).
NearestEven(q, r, d) ==
    IF 2 * r < d THEN q
    ELSE IF 2 * r > d THEN q + 1
    ELSE IF q % 2 = 0 THEN q ELSE q + 1

\* n / d rounded to the nearest integer, ties to even (n >= 0, d > 0).
RoundHalfEven(n, d) == NearestEven(n \div d, n % d, d)

RECURSIVE Pow10(_)
Pow10(k) == IF k = 0 THEN 1 ELSE 10 * Pow10(k - 1)

\* The doublings that bring q + r / d into [2^23, 2^24): after k of them
\* the number is (q + r / d) / 2^k.
RECURSIVE Doublings(_, _, _, _)
Doublings(q, r, d, k) ==
    IF q >= Pow2(SignificandBits - 1) THEN [ q |-> q, r |-> r, k |-> k ]
    ELSE Doublings(2 * q + (2 * r) \div d, (2 * r) % d, d, k + 1)

Real4(a) ==
    IF a.nan THEN [ nan |-> TRUE, significand |-> 0, exponent |-> 0 ]
    ELSE IF a.cents = 0 /\ a.beyond = ""
    THEN [ nan |-> FALSE, significand |-> 0, exponent |-> 0 ]
    ELSE LET d == 100 * Pow10(Len(a.beyond))
             n == (IF a.cents < 0 THEN -a.cents ELSE a.cents) * Pow10(Len(a.beyond))
                    + DigitsValue(a.beyond)
             at == Doublings(n \div d, n % d, d, 0)
             m == NearestEven(at.q, at.r, d)
         IN  [ nan |-> FALSE,
               significand |-> IF a.cents < 0 THEN -m ELSE m,
               exponent |-> -at.k ]

\* storage.createTransaction (DbStorage): a plain insert, which the unique
\* constraint on transaction_id rejects when the id is already in the table.
InsertRejected(rows, transactionId) ==
    \E i \in 1..Len(rows) : rows[i].transactionId = transactionId

-----------------------------------------------------------------------------
(* The locals of a handler invocation (one file)                           *)

\* user?.age || 65.  The users table has no age column, so user?.age is
\* undefined for every user.
UserAge(userId) == Absent

DefaultAge == 65

AgeOrDefault(age) ==
    IF age = Absent THEN << DefaultAge >>
    ELSE IF age[1] = 0 THEN << DefaultAge >> ELSE age

\* transformRequestSchema.parse: format is z.enum(['MT103', 'NACHA']).
RouteFormatLenient(format) == IF format = "MT103" THEN "MT103" ELSE "NACHA"

RouteFormat(format) == IF format \in { "MT103", "NACHA" } THEN format ELSE "rejected"

\* field?.split('\n')[0] || ""
FirstLine(field) == IF field = Absent THEN "" ELSE split(field[1], "\n")[1]

\* parseFloat(result.data.amount || "0")
MT103AmountWithoutFallback(data) == parseFloat(OrElse(data.amount, ""))

MT103Amount(data) == parseFloat(OrElse(data.amount, "0"))

\* The MT103 branch of both endpoints; reference is what the batch endpoint
\* takes the transaction id from.
MT103Locals(content, t) ==
    LET data == parseMT103(content)
    IN  [ xml |-> convertMT103ToISO20022(data, t),
          reference |-> OrElse(data.transactionReference, ""),
          amount |-> MT103Amount(data),
          currency |-> OrElse(data.currency, "USD"),
          senderName |-> FirstLine(data.orderingCustomer),
          recipientName |-> FirstLine(data.beneficiary),
          recipientAccount |-> "",
          remittanceInfo |-> OrElse(data.remittanceInfo, "") ]

\* The NACHA branch of both endpoints.
NACHALocals(content, t) ==
    LET data == parseNACHA(content)
    IN  [ xml |-> convertNACHAToISO20022(data, t),
          reference |-> FieldOrElse(data.entryDetail, "traceNumber", ""),
          amount |-> ParseIntHundredths(FieldOrElse(data.entryDetail, "amount", "0")),
          currency |-> "USD",
          senderName |-> FieldOrElse(data.batchHeader, "companyName", ""),
          recipientName |-> FieldOrElse(data.entryDetail, "individualName", ""),
          recipientAccount |-> FieldOrElse(data.entryDetail, "dfiAccountNumber", ""),
          remittanceInfo |-> FieldOrElse(data.batchHeader, "entryDescription", "") ]

LocalsOf(kind, content, t) ==
    IF kind = "MT103" THEN MT103Locals(content, t) ELSE NACHALocals(content, t)

\* Math.random(): the k-th value drawn.  Two draws are taken to differ.
RandomText(k) == "r" \o ToString(k)

\* analyzeFraud as the endpoints see it: the rule-based result, or, when the
\* enhancement is attempted, that result merged with what enhanceWithAI
\* returned (lines 146-159).
analyzeFraud(a, rem, rec, age) ==
    LET st == RuleBasedAnalysis(a, rem, rec, age)
        merged == { [ st EXCEPT !.signals =
                                    IF Len(aiAnalysis.additionalSignals) = 1
                                    THEN @ \o aiAnalysis.additionalSignals[1] ELSE @,
                                !.fraudScore =
                                    IF Len(aiAnalysis.adjustedScore) = 1
                                        /\ aiAnalysis.adjustedScore[1] # 0
                                    THEN Min(aiAnalysis.adjustedScore[1] * Scale, 95 * Scale)
                                    ELSE @ ] :
                    aiAnalysis \in enhanceWithAI }
    IN  { FraudResultOf(r) :
            r \in { st } \cup (IF st.fraudScore >= 50 * Scale /\ Len(st.detectedScams) > 0
                               THEN merged ELSE {}) }

\* The locals as declared (part_009 lines 530-537 and 441-448).
NewTask ==
    [ pc |-> "start", xml |-> Absent, transactionId |-> "", amount |-> Dollars(0),
      currency |-> "USD", senderName |-> "", recipientName |-> "",
      recipientAccount |-> "", remittanceInfo |-> "", fraud |-> Absent ]

AnalyzedTask(locals, transactionId, fraudAnalysis) ==
    [ pc |-> "analyzed", xml |-> Present(locals.xml), transactionId |-> transactionId,
      amount |-> locals.amount, currency |-> locals.currency,
      senderName |-> locals.senderName, recipientName |-> locals.recipientName,
      recipientAccount |-> locals.recipientAccount,
      remittanceInfo |-> locals.remittanceInfo, fraud |-> Present(fraudAnalysis) ]

\* status: fraudAnalysis.fraudFlag ? "reviewing" : "approved"
StatusOfAlwaysApproved(fraudFlag) == "approved"

StatusOf(fraudFlag) == IF fraudFlag THEN "reviewing" ELSE "approved"

\* The argument of storage.createTransaction, as the table keeps it.
RowOf(task, userId, format) ==
    [ transactionId |-> task.transactionId,
      customerId |-> userId,
      customerAge |-> AgeOrDefault(UserAge(userId))[1],
      amount |-> Real4(task.amount),
      currency |-> task.currency,
      senderName |-> task.senderName,
      recipientName |-> task.recipientName,
      recipientAccount |-> task.recipientAccount,
      remittanceInfo |-> task.remittanceInfo,
      sourceFormat |-> format,
      iso20022Xml |-> task.xml[1],
      fraudScore |-> task.fraud[1].fraudScore,
      fraudFlag |-> task.fraud[1].fraudFlag,
      fraudType |-> IF Len(task.fraud[1].detectedScams) = 0 THEN Absent
                    ELSE Present(task.fraud[1].detectedScams[1].name),
      fraudSignals |-> task.fraud[1].signals,
      status |-> StatusOf(task.fraud[1].fraudFlag) ]

-----------------------------------------------------------------------------
(* The endpoints.  A handler runs without interruption from one await to   *)
(* the next: up to the call of analyzeFraud, then up to the insert, then   *)
(* to its end.                                                             *)

\* The scorer's own variables while the endpoints are studied.
ScorerIdle ==
    /\ amount = NaN
    /\ remittanceInfo = ""
    /\ recipientName = ""
    /\ customerAge = Absent
    /\ pc = "idle"
    /\ idx = 1
    /\ textToAnalyze = ""
    /\ fraudScore = 0
    /\ signals = <<>>
    /\ detectedScams = <<>>
    /\ ai = "none"
    /\ result = NoResult
    /\ prev = <<>>
    /\ calls = 0

TransformInit ==
    /\ ScorerIdle
    /\ request \in Requests
    /\ now = 0
    /\ tasks = [ i \in 1..Len(request.files) |-> NewTask ]
    /\ store = <<>>
    /\ response = <<>>
    /\ earlier = <<>>
    /\ repeats = 0
    /\ randoms = 0

\* POST /api/transform, lines 522-573: validation, the transformer, the
\* call of analyzeFraud.  A ZodError is answered with 400 by the catch block.
TransformStart ==
    /\ request.route = "transform"
    /\ tasks[1].pc = "start"
    /\ LET file == request.files[1]
           kind == RouteFormat(file.format)
       IN  IF kind = "rejected"
           THEN /\ tasks' = [ tasks EXCEPT ![1].pc = "rejected" ]
                /\ response' = << [ status |-> 400, success |-> FALSE,
                                    errors |-> << "Validation error" >> ] >>
                /\ UNCHANGED randoms
           ELSE LET locals == LocalsOf(kind, file.content, now)
                    transactionId == "TXN-" \o DateNowText(now) \o "-" \o RandomText(randoms)
                IN  /\ \E fraudAnalysis \in analyzeFraud(locals.amount, locals.remittanceInfo,
                                                        locals.recipientName,
                                                        AgeOrDefault(UserAge(request.userId))) :
                        tasks' = [ tasks EXCEPT ![1] =
                                     AnalyzedTask(locals, transactionId, fraudAnalysis) ]
                    /\ randoms' = randoms + 1
                    /\ UNCHANGED response
    /\ UNCHANGED <<request, now, store, earlier, repeats>>
    /\ UNCHANGED fvars

\* POST /api/transform, lines 576-629: the insert and the response; an
\* error of the insert is answered with 500 by the catch block.
TransformStore ==
    /\ request.route = "transform"
    /\ tasks[1].pc = "analyzed"
    /\ LET task == tasks[1]
           fraudAnalysis == task.fraud[1]
       IN  IF InsertRejected(store, task.transactionId)
           THEN /\ tasks' = [ tasks EXCEPT ![1].pc = "failed" ]
                /\ response' = << [ status |-> 500, success |-> FALSE,
                                    errors |-> << "An error occurred during transformation. Please check your input." >> ] >>
                /\ UNCHANGED store
           ELSE /\ store' = Append(store, RowOf(task, request.userId, request.files[1].format))
                /\ tasks' = [ tasks EXCEPT ![1].pc = "stored" ]
                /\ response' =
                     << [ status |-> 200,
                          success |-> TRUE,
                          transactionId |-> task.transactionId,
                          iso20022Xml |-> task.xml[1],
                          fraudScore |-> fraudAnalysis.fraudScore,
                          fraudFlag |-> fraudAnalysis.fraudFlag,
                          fraudType |-> IF Len(fraudAnalysis.detectedScams) = 0 THEN Absent
                                        ELSE Present(fraudAnalysis.detectedScams[1].name),
                          fraudSignals |-> fraudAnalysis.signals,
                          detectedScams |-> fraudAnalysis.detectedScams,
                          amount |-> task.amount,
                          recipientName |-> task.recipientName,
                          remittanceInfo |-> task.remittanceInfo,
                          warnings |-> IF fraudAnalysis.fraudFlag
                                       THEN Present("This transaction has been flagged for potential fraud ("
                                                    \o ToString(fraudAnalysis.fraudScore) \o "% risk)")
                                       ELSE Absent ] >>
    /\ UNCHANGED <<request, now, earlier, repeats, randoms>>
    /\ UNCHANGED fvars

\* POST /api/transform/batch, lines 432-471: the callback of files.map for
\* file i, up to its call of analyzeFraud.  Its own catch block turns a
\* ZodError into a failed item; for that it reads file.fileName, which
\* raises a TypeError when the file is null, and the promise of the
\* callback is rejected.
BatchItemStart(i) ==
    /\ request.route = "batch"
    /\ tasks[i].pc = "start"
    /\ LET file == request.files[i]
           kind == RouteFormat(file.format)
       IN  IF kind = "rejected"
           THEN /\ tasks' = [ tasks EXCEPT ![i].pc = IF IsNull(file) THEN "raised"
                                                    ELSE "failed" ]
                /\ UNCHANGED randoms
           ELSE LET locals == LocalsOf(kind, file.content, now)
                    generated == kind \o "-" \o DateNowText(now) \o "-" \o RandomText(randoms)
                    transactionId == OrText(locals.reference, generated)
                IN  /\ \E fraudAnalysis \in analyzeFraud(locals.amount, locals.remittanceInfo,
                                                        locals.recipientName,
                                                        AgeOrDefault(UserAge(request.userId))) :
                        tasks' = [ tasks EXCEPT ![i] =
                                     AnalyzedTask(locals, transactionId, fraudAnalysis) ]
                    /\ randoms' = IF locals.reference = "" THEN randoms + 1 ELSE randoms
    /\ UNCHANGED <<request, now, store, response, earlier, repeats>>
    /\ UNCHANGED fvars

\* POST /api/transform/batch, lines 473-505: the insert of file i and the
\* item it returns; an error of the insert makes the item a failed one.
BatchItemStore(i) ==
    /\ request.route = "batch"
    /\ tasks[i].pc = "analyzed"
    /\ IF InsertRejected(store, tasks[i].transactionId)
       THEN /\ tasks' = [ tasks EXCEPT ![i].pc = "failed" ]
            /\ UNCHANGED store
       ELSE /\ store' = Append(store, RowOf(tasks[i], request.userId, request.files[i].format))
            /\ tasks' = [ tasks EXCEPT ![i].pc = "stored" ]
    /\ UNCHANGED <<request, now, response, earlier, repeats, randoms>>
    /\ UNCHANGED fvars

\* The item file i contributes to the results of the batch.
BatchItem(task) ==
    IF task.pc = "stored"
    THEN [ success |-> TRUE,
           transactionId |-> task.transactionId,
           fraudScore |-> task.fraud[1].fraudScore,
           fraudFlag |-> task.fraud[1].fraudFlag ]
    ELSE [ success |-> FALSE, error |-> "Processing failed" ]

\* POST /api/transform/batch, lines 508-513: Promise.all has resolved.
BatchRespond ==
    /\ request.route = "batch"
    /\ response = <<>>
    /\ \A i \in 1..Len(tasks) : tasks[i].pc \in { "stored", "failed" }
    /\ LET results == [ i \in 1..Len(tasks) |-> BatchItem(tasks[i]) ]
       IN  response' =
             << [ status |-> 200,
                  results |-> results,
                  total |-> Len(request.files),
                  successful |-> Cardinality({ i \in 1..Len(results) : results[i].success }),
                  failed |-> Cardinality({ i \in 1..Len(results) : ~results[i].success }) ] >>
    /\ UNCHANGED <<request, now, tasks, store, earlier, repeats, randoms>>
    /\ UNCHANGED fvars

\* POST /api/transform/batch, lines 515-518: Promise.all is rejected as
\* soon as one callback is, and the outer catch block answers 500; the
\* other callbacks run on.
BatchFail ==
    /\ request.route = "batch"
    /\ response = <<>>
    /\ \E i \in 1..Len(tasks) : tasks[i].pc = "raised"
    /\ response' = << [ status |-> 500, message |-> "Batch processing failed" ] >>
    /\ UNCHANGED <<request, now, tasks, store, earlier, repeats, randoms>>
    /\ UNCHANGED fvars

\* The client sends the same request again, some time after the response
\* and after every callback of the request has ended.
Repeat ==
    /\ response # <<>>
    /\ \A i \in 1..Len(tasks) : tasks[i].pc \in { "stored", "failed", "rejected", "raised" }
    /\ repeats < MaxRepeat
    /\ \E step \in ClockSteps : now' = now + step
    /\ earlier' = response
    /\ response' = <<>>
    /\ tasks' = [ i \in 1..Len(request.files) |-> NewTask ]
    /\ repeats' = repeats + 1
    /\ UNCHANGED <<request, store, randoms>>
    /\ UNCHANGED fvars

TransformNext ==
    \/ TransformStart
    \/ TransformStore
    \/ \E i \in 1..Len(tasks) : BatchItemStart(i)
    \/ \E i \in 1..Len(tasks) : BatchItemStore(i)
    \/ BatchRespond
    \/ BatchFail
    \/ Repeat

TransformSpec == TransformInit /\ [][TransformNext]_vars

-----------------------------------------------------------------------------
(* What the claims about the endpoints speak of                            *)

\* The position of the first occurrence of word in text (which has one).
FirstIndexOf(text, word) ==
    CHOOSE i \in 1..(Len(text) - Len(word) + 1) :
        /\ SubSeq(text, i, i + Len(word) - 1) = word
        /\ \A j \in 1..(i - 1) : SubSeq(text, j, j + Len(word) - 1) # word

\* The content of the first element called name in an XML text.
ElementText(xml, name) ==
    LET open == "<" \o name \o ">"
        from == FirstIndexOf(xml, open) + Len(open)
    IN  SubSeq(xml, from, FirstIndexOf(xml, "</" \o name \o ">") - 1)

\* An XML text with the content of its CreDtTm element taken out.
WithoutCreDtTm(xml) ==
    SubSeq(xml, 1, FirstIndexOf(xml, "<CreDtTm>") + Len("<CreDtTm>") - 1)
        \o SubSeq(xml, FirstIndexOf(xml, "</CreDtTm>"), Len(xml))

\* The request is a single transform that was answered, sent again with the
\* same format, content and user, and answered again, both times with a
\* transformation.
TransformedTwice ==
    /\ request.route = "transform"
    /\ earlier # <<>>
    /\ response # <<>>
    /\ earlier[1].success
    /\ response[1].success

\* C11: determinism.  Two transform calls with the same format, content and
\* age return XML that differs at most inside the CreDtTm element, the same
\* fraudScore and the same signals, also for a message without a reference
\* (trace number) or without a date.
CexC11_RepeatedTransformIsIdentical ==
    TransformedTwice =>
        /\ WithoutCreDtTm(response[1].iso20022Xml) = WithoutCreDtTm(earlier[1].iso20022Xml)
        /\ response[1].fraudScore = earlier[1].fraudScore
        /\ response[1].fraudSignals = earlier[1].fraudSignals

\* C13: a transform request whose format is neither 'MT103' nor 'NACHA' is
\* answered with status 400 and success = false by the first step of the
\* handler; no transformer has produced XML for it, analyzeFraud has produced
\* no result for it, and no transaction is stored, however often it is sent.
ThmC13_UnsupportedFormatRejectedBeforeParsing ==
    (request.route = "transform" /\ request.files[1].format \notin { "MT103", "NACHA" }) =>
        /\ tasks[1].pc \in { "start", "rejected" }
        /\ tasks[1].xml = Absent
        /\ tasks[1].fraud = Absent
        /\ store = <<>>
        /\ (tasks[1].pc = "rejected") = (response # <<>>)
        /\ response # <<>> => (response[1].status = 400 /\ ~response[1].success)
        /\ earlier # <<>> => (earlier[1].status = 400 /\ ~earlier[1].success)

\* A request with format 'CSV' was rejected, sent again and rejected again.
WitC13_CSVRejectedTwice ==
    /\ request.route = "transform"
    /\ request.files[1].format = "CSV"
    /\ earlier # <<>>
    /\ response # <<>>
    /\ response[1].status = 400
    /\ tasks[1].pc = "rejected"

\* The lines of a content as the parsers see them.
ClaimLines(content) == MapTrim(split(content, "\n"))

MT103Tags == { ":20:", ":32A:", ":50K:", ":59:", ":70:", ":71A:" }

\* No line of the content is a recognised MT103 tag line, respectively a
\* NACHA '5' or '6' record.
NothingParsable(file) ==
    LET lines == ClaimLines(file.content)
    IN  IF file.format = "MT103"
        THEN \A i \in 1..Len(lines) : \A tag \in MT103Tags : ~startsWith(lines[i], tag)
        ELSE \A i \in 1..Len(lines) : ~startsWith(lines[i], "5") /\ ~startsWith(lines[i], "6")

\* The document either converter builds when every field is absent.
DefaultDocument(format, t) ==
    IF format = "MT103"
    THEN MT103Document("MSG" \o DateNowText(t), toISOString(t), "USD", "0.00", ISODate(t),
                       "SHAR", "Unknown Sender", "Unknown Address",
                       "Unknown Beneficiary", "Unknown Address", "Payment")
    ELSE NACHADocument("MSG" \o DateNowText(t), toISOString(t), "0.00", ISODate(t),
                       "Unknown Company", "Unknown", "Unknown Individual", "Unknown",
                       "Payment")

\* C14: content of a supported format from which nothing can be parsed is
\* not an error.  Its handler never fails; once it has transformed and
\* scored, the amount is 0, the XML is the document built from the defaults,
\* no scam is detected, the score is 0 and the flag is false; the transform
\* endpoint answers 200 with success, amount 0, score 0 and flag false, and
\* the batch endpoint reports the item as a success with score 0.
ThmC14_NothingParsableGivesZeroResult ==
    \A i \in 1..Len(tasks) :
        LET file == request.files[i]
            task == tasks[i]
        IN  (file.format \in { "MT103", "NACHA" } /\ NothingParsable(file)) =>
                /\ task.pc \in { "start", "analyzed", "stored" }
                /\ task.pc # "start" =>
                      /\ task.amount = Dollars(0)
                      /\ task.xml = Present(DefaultDocument(file.format, now))
                      /\ task.fraud[1].detectedScams = <<>>
                      /\ task.fraud[1].fraudScore = 0
                      /\ ~task.fraud[1].fraudFlag
                /\ (request.route = "transform" /\ response # <<>>) =>
                      /\ response[1].status = 200
                      /\ response[1].success
                      /\ response[1].amount = Dollars(0)
                      /\ response[1].iso20022Xml = DefaultDocument(file.format, now)
                      /\ response[1].detectedScams = <<>>
                      /\ response[1].fraudScore = 0
                      /\ ~response[1].fraudFlag
                /\ (request.route = "batch" /\ response # <<>> /\ response[1].status = 200) =>
                      /\ response[1].results[i].success
                      /\ response[1].results[i].fraudScore = 0
                      /\ ~response[1].results[i].fraudFlag

\* Text without any MT103 tag was transformed and answered with score 0.
WitC14_UntaggedTextTransformed ==
    /\ request.route = "transform"
    /\ request.files[1] = [ format |-> "MT103", content |-> MT103NoTag ]
    /\ response # <<>>
    /\ response[1].success
    /\ response[1].fraudScore = 0
    /\ Len(store) = 1

\* The content is NACHA and has an entry-detail line of fewer than 94
\* characters.
HasShortEntryLine(file) ==
    /\ file.format = "NACHA"
    /\ \E i \in 1..Len(split(file.content, "\n")) :
          LET raw == split(file.content, "\n")[i]
          IN  startsWith(trim(raw), "6") /\ Len(raw) < 94

\* C15: a NACHA entry-detail line shorter than 94 characters, whatever its
\* length and whatever stands in the amount columns, does not make the
\* handler fail, gives the numeric amount 0.00 and a score below the flag
\* threshold, and its batch item is reported as a success.
CexC15_ShortEntryLineGivesZeroAmount ==
    \A i \in 1..Len(tasks) :
        HasShortEntryLine(request.files[i]) =>
            /\ tasks[i].pc # "failed"
            /\ tasks[i].pc \in { "analyzed", "stored" } =>
                  /\ tasks[i].amount = Dollars(0)
                  /\ ~tasks[i].fraud[1].fraudFlag

\* The item of file i alone, on an empty table: it succeeds exactly when its
\* format passes the validation.
SucceedsAlone(file) == file.format \in { "MT103", "NACHA" }

\* C16: batch isolation.  In the response to a batch (the first request, on
\* an empty table) every item has the outcome its file has when it is sent
\* alone, also when two files carry the same MT103 reference or NACHA trace
\* number, and every successful item has its own stored transaction.
CexC16_BatchItemsAreIndependent ==
    (request.route = "batch" /\ repeats = 0 /\ response # <<>>) =>
        \A i \in 1..Len(tasks) :
            /\ response[1].status = 200
            /\ response[1].results[i].success = SucceedsAlone(request.files[i])
            /\ response[1].results[i].success =>
                  \E k \in 1..Len(store) :
                      /\ store[k].transactionId = tasks[i].transactionId
                      /\ store[k].iso20022Xml = tasks[i].xml[1]

CountOf(text, c) == Cardinality({ i \in 1..Len(text) : CharAt(text, i) = c })

\* C17: message-derived text is escaped when it is inserted into the XML, so
\* the rendered document has exactly the '<' and '>' of the template (those
\* of the document built from defaults) and no raw '&'.
CexC17_RenderedXmlHasOnlyTemplateMarkup ==
    \A i \in 1..Len(tasks) :
        tasks[i].xml # Absent =>
            LET xml == tasks[i].xml[1]
                template == DefaultDocument(RouteFormat(request.files[i].format), now)
            IN  /\ CountOf(xml, "<") = CountOf(template, "<")
                /\ CountOf(xml, ">") = CountOf(template, ">")
                /\ CountOf(xml, "&") = 0

\* The six-digit date of the message: the date of the last :32A: line that
\* matches, respectively of the last batch header; <<>> when there is none.
MessageDate(file) ==
    IF file.format = "MT103" THEN parseMT103(file.content).valueDate
    ELSE LET header == parseNACHA(file.content).batchHeader
         IN  IF header = Absent THEN Absent
             ELSE IF Len(header[1].effectiveEntryDate) = 6
                     /\ DigitPrefixLen(header[1].effectiveEntryDate) = 6
                  THEN Present(header[1].effectiveEntryDate)
                  ELSE Absent

\* YYMMDD as YYYY-MM-DD with century 20.
ClaimDate(yymmdd) ==
    "20" \o SubSeq(yymmdd, 1, 2) \o "-" \o SubSeq(yymmdd, 3, 4) \o "-" \o SubSeq(yymmdd, 5, 6)

\* C18: the six-digit YYMMDD date of a message (MT103 value date, NACHA
\* effective entry date) appears as the settlement date of the result in the
\* form YYYY-MM-DD with century 20.
CexC18_SettlementDateHasCentury ==
    \A i \in 1..Len(tasks) :
        (tasks[i].xml # Absent /\ MessageDate(request.files[i]) # Absent) =>
            ElementText(tasks[i].xml[1], "IntrBkSttlmDt")
                = ClaimDate(MessageDate(request.files[i])[1])

\* The text of the IntrBkSttlmAmt element (which carries a Ccy attribute).
AmountText(xml) ==
    LET from == FirstIndexOf(xml, "<IntrBkSttlmAmt Ccy=\"")
                    + Len("<IntrBkSttlmAmt Ccy=\"") + Len("USD\">")
    IN  SubSeq(xml, from, FirstIndexOf(xml, "</IntrBkSttlmAmt>") - 1)

\* The amount columns (30-39) of the last entry-detail line, when that line
\* is complete and the columns hold ten digits; <<>> otherwise.
EntryAmountDigits(file) ==
    LET lines == SelectSeq(ClaimLines(file.content), LAMBDA line : startsWith(line, "6"))
    IN  IF file.format # "NACHA" \/ Len(lines) = 0 THEN Absent
        ELSE LET field == SubSeq(lines[Len(lines)], 30, 39)
             IN  IF Len(lines[Len(lines)]) = 94 /\ DigitPrefixLen(field) = 10
                 THEN Present(field) ELSE Absent

\* n cents written as n/100 with two fraction digits and no leading zeros.
ClaimDecimal(n) ==
    ToString(n \div 100) \o "." \o ToString((n % 100) \div 10) \o ToString(n % 10)

\* The number a row keeps in its amount column, read back to the nearest
\* cent.
StoredCents(real) ==
    IF real.exponent >= 0 THEN real.significand * Pow2(real.exponent) * 100
    ELSE RoundHalfEven(real.significand * 100, Pow2(-real.exponent))

\* C19: a NACHA amount field of ten digits holding n cents is rendered in
\* the XML as n/100 with exactly two fraction digits and no leading zeros,
\* the numeric amount of the result is n/100, and the amount stored with the
\* transaction is n/100.
CexC19_NACHAAmountIsCentsOver100 ==
    \A i \in 1..Len(tasks) :
        LET digits == EntryAmountDigits(request.files[i])
            task == tasks[i]
        IN  (digits # Absent /\ task.xml # Absent) =>
                /\ AmountText(task.xml[1]) = ClaimDecimal(DigitsValue(digits[1]))
                /\ task.amount = Cents(DigitsValue(digits[1]))
                /\ \A k \in 1..Len(store) :
                      (task.pc = "stored" /\ store[k].transactionId = task.transactionId) =>
                          /\ ~store[k].amount.nan
                          /\ StoredCents(store[k].amount) = DigitsValue(digits[1])

\* C20: no result, stored transaction or rendered XML carries a negative
\* amount: a negative amount field is treated as absent.
CexC20_NoNegativeAmount ==
    /\ \A i \in 1..Len(tasks) :
          tasks[i].xml # Absent =>
              /\ tasks[i].amount.nan \/ tasks[i].amount.cents >= 0
              /\ ~startsWith(AmountText(tasks[i].xml[1]), "-")
    /\ \A k \in 1..Len(store) : store[k].amount.significand >= 0
    /\ (request.route = "transform" /\ response # <<>> /\ response[1].success) =>
          (response[1].amount.nan \/ response[1].amount.cents >= 0)

-----------------------------------------------------------------------------
(* MT103 amounts                                                           *)

\* The text without the occurrences of the character c.
RECURSIVE Without(_, _)
Without(text, c) ==
    IF Len(text) = 0 THEN ""
    ELSE (IF CharAt(text, 1) = c THEN "" ELSE CharAt(text, 1))
            \o Without(SubSeq(text, 2, Len(text)), c)

\* The amount part of the last :32A: line of an MT103 file that has the
\* form date, currency, amount part; <<>> when there is none.
AmountPart(file) ==
    LET lines == SelectSeq(ClaimLines(file.content),
                           LAMBDA line : /\ startsWith(line, ":32A:")
                                         /\ Match32A(substringFrom(line, 5)) # <<>>)
    IN  IF file.format # "MT103" \/ Len(lines) = 0 THEN Absent
        ELSE Present(Match32A(substringFrom(lines[Len(lines)], 5))[3])

\* The decimal value an amount part with a decimal comma stands for: the
\* points are thousands separators, the digits after the comma the
\* fraction; <<>> when the part has no digit.
IntendedAmount(part) ==
    LET plain == Without(part, ".")
        k == DigitPrefixLen(plain)
        rest == substringFrom(plain, k)
        fraction == IF startsWith(rest, ",")
                    THEN SubSeq(rest, 2, 1 + DigitPrefixLen(substringFrom(rest, 1)))
                    ELSE ""
    IN  IF k = 0 /\ Len(fraction) = 0 THEN Absent
        ELSE Present([ nan |-> FALSE,
                       cents |-> DigitsValue(SubSeq(plain, 1, k)) * 100
                                    + DigitsValue(substring(fraction \o "00", 0, 2)),
                       beyond |-> WithoutTrailingZeros(substringFrom(fraction, 2)) ])

\* C21: parsing an MT103 :32A: amount part strips the thousands separators
\* and converts the decimal comma, so the numeric amount of the result is
\* the decimal value the part stands for ('2500,00' -> 2500.00, '1.234,56'
\* -> 1234.56); when the part has no digit the amount field is absent.
CexC21_MT103AmountIsIntendedDecimal ==
    \A i \in 1..Len(tasks) :
        LET part == AmountPart(request.files[i])
            data == parseMT103(request.files[i].content)
        IN  (part # Absent /\ tasks[i].xml # Absent) =>
                IF IntendedAmount(part[1]) = Absent
                THEN data.amount = Absent
                ELSE /\ data.amount # Absent
                     /\ parseFloat(data.amount[1]) = IntendedAmount(part[1])[1]
                     /\ tasks[i].amount = IntendedAmount(part[1])[1]

-----------------------------------------------------------------------------
(* MT103 multi-line fields                                                 *)

\* The value of a multi-line field read at its tag line, line i: the
\* remainder of that line, then the lines after it up to the next line that
\* begins with ':' or the end of the message, separated by line feeds.
FieldFrom(lines, i, tag) ==
    LET stop == IF \A j \in (i + 1)..Len(lines) : ~startsWith(lines[j], ":")
                THEN Len(lines) + 1
                ELSE CHOOSE j \in (i + 1)..Len(lines) :
                        /\ startsWith(lines[j], ":")
                        /\ \A k \in (i + 1)..(j - 1) : ~startsWith(lines[k], ":")
    IN  trim(join(<< trim(substringFrom(lines[i], Len(tag))) >>
                    \o SubSeq(lines, i + 1, stop - 1), "\n"))

\* The value of the field of the last line with the tag; <<>> without one.
FieldOfTag(content, tag) ==
    LET lines == ClaimLines(content)
        at == { i \in 1..Len(lines) : startsWith(lines[i], tag) }
    IN  IF at = {} THEN Absent
        ELSE Present(FieldFrom(lines, CHOOSE i \in at : \A j \in at : j <= i, tag))

\* C22: in every MT103 message, also one in which a line text occurs more
\* than once, each of :50K:, :59: and :70: holds the remainder of its own
\* tag line and the lines after it up to the next line that begins with
\* ':'; it holds no line from before its tag line or from after the next
\* tag line.
CexC22_FieldContinuesFromItsOwnTagLine ==
    \A i \in 1..Len(tasks) :
        (request.files[i].format = "MT103" /\ tasks[i].xml # Absent) =>
            LET content == request.files[i].content
                data == parseMT103(content)
            IN  /\ data.orderingCustomer = FieldOfTag(content, ":50K:")
                /\ data.beneficiary = FieldOfTag(content, ":59:")
                /\ data.remittanceInfo = FieldOfTag(content, ":70:")
                /\ tasks[i].remittanceInfo = OrElse(FieldOfTag(content, ":70:"), "")

-----------------------------------------------------------------------------
(* The group header                                                        *)

\* How often word occurs in text.
Occurrences(text, word) ==
    Cardinality({ i \in 1..(Len(text) - Len(word) + 1) :
                    SubSeq(text, i, i + Len(word) - 1) = word })

\* C23: for every successful transform the MsgId of the rendered XML is the
\* transactionId returned to the caller and stored with the transaction,
\* NbOfTxs is 1 and the document has exactly one CdtTrfTxInf block.
CexC23_MsgIdIsTransactionId ==
    /\ \A i \in 1..Len(tasks) :
          tasks[i].pc = "stored" =>
              /\ ElementText(tasks[i].xml[1], "MsgId") = tasks[i].transactionId
              /\ ElementText(tasks[i].xml[1], "NbOfTxs") = "1"
              /\ Occurrences(tasks[i].xml[1], "<CdtTrfTxInf>") = 1
              /\ Occurrences(tasks[i].xml[1], "</CdtTrfTxInf>") = 1
    /\ \A k \in 1..Len(store) :
          ElementText(store[k].iso20022Xml, "MsgId") = store[k].transactionId
    /\ (request.route = "transform" /\ response # <<>> /\ response[1].success) =>
          ElementText(response[1].iso20022Xml, "MsgId") = response[1].transactionId

-----------------------------------------------------------------------------
(* NACHA positions                                                         *)

\* The characters at the 1-indexed inclusive positions first..last of a
\* line (fewer when the line is shorter).
Positions(line, first, last) == SubSeq(line, first, Min(last, Len(line)))

\* The last line of the content, as received, that is a record of the type
\* (its first character after leading white space); <<>> without one.
ReceivedRecord(content, type) ==
    LET lines == SelectSeq(split(content, "\n"),
                           LAMBDA line : startsWith(trim(line), type))
    IN  IF Len(lines) = 0 THEN Absent ELSE Present(lines[Len(lines)])

BatchHeaderAtPositions(line) ==
    [ companyName |-> trim(Positions(line, 5, 20)),
      companyId |-> trim(Positions(line, 41, 50)),
      standardEntryClass |-> trim(Positions(line, 51, 53)),
      entryDescription |-> trim(Positions(line, 54, 63)),
      effectiveEntryDate |-> trim(Positions(line, 70, 75)) ]

EntryDetailAtPositions(line) ==
    [ transactionCode |-> Positions(line, 2, 3),
      receivingDFI |-> Positions(line, 4, 11),
      checkDigit |-> Positions(line, 12, 12),
      dfiAccountNumber |-> trim(Positions(line, 13, 29)),
      amount |-> Positions(line, 30, 39),
      individualId |-> trim(Positions(line, 40, 54)),
      individualName |-> trim(Positions(line, 55, 76)),
      traceNumber |-> trim(Positions(line, 80, 94)) ]

-----------------------------------------------------------------------------
(* The order of the adjustments of analyzeFraud                            *)

\* The score after the pattern loop, from the texts and the amount.
ClaimBase == LET M == ClaimMatches IN SetMax(ClaimContributions(M))

ClaimSenior == customerAge # <<>> /\ customerAge[1] >= 65

ClaimUrgent == LET t == ClaimText IN ClaimUrgencyFound(t) # {}

ClaimRound == ~amount.nan /\ amount.cents >= 100000 /\ amount.cents % 50000 = 0

\* round(min(min(min(b * k, 95) + u, 95) + r, 95)) for the base b (in
\* 1/Scale points), k = 1.2 or 1, u = 15 or 0, r = 10 or 0; b * 1.2 is a
\* whole number of 1/Scale points for every base.
ClaimAdjusted(b, senior, urgent, round) ==
    LET aged == IF senior THEN Min((12 * b) \div 10, 95 * Scale) ELSE b
        urged == Min(aged + (IF urgent THEN 15 * Scale ELSE 0), 95 * Scale)
        rounded == Min(urged + (IF round THEN 10 * Scale ELSE 0), 95 * Scale)
    IN  (2 * rounded + Scale) \div (2 * Scale)

\* C25: the adjustments are applied in the order pattern loop, age
\* multiplier, urgency bonus, round-amount bonus, each capped at 95: with
\* base b after the loop the returned score is
\* round(min(min(min(b * k, 95) + u, 95) + r, 95)); the flat bonuses are
\* never multiplied by the age factor.
ThmC25_AdjustmentsInFixedOrder ==
    pc = "done" =>
        LET b == ClaimBase
        IN  /\ (12 * b) % 10 = 0
            /\ Returned.fraudScore = ClaimAdjusted(b, ClaimSenior, ClaimUrgent, ClaimRound)

\* A senior's call with an urgency keyword in which no cap applied and
\* scaling the flat bonus would have given another score: the base is 62.5,
\* 62.5 * 1.2 + 15 = 90, while (62.5 + 15) * 1.2 = 93.
WitC25_AgeBeforeUrgency ==
    /\ pc = "done"
    /\ ClaimSenior /\ ClaimUrgent /\ ~ClaimRound
    /\ 2 * ClaimBase = 125 * Scale
    /\ Returned.fraudScore = 90

-----------------------------------------------------------------------------
(* The response of the batch endpoint                                      *)

\* C26: every batch request with a files array of length n is answered
\* with 200, n results in the order of the files, total = n and
\* successful + failed = n, where successful counts the items that stored a
\* transaction and failed the others, also when every item failed.
CexC26_BatchAnswersWithOneResultPerFile ==
    (request.route = "batch" /\ response # <<>>) =>
        LET n == Len(request.files)
            answer == response[1]
        IN  /\ answer.status = 200
            /\ Len(answer.results) = n
            /\ answer.total = n
            /\ answer.successful + answer.failed = n
            /\ answer.successful = Cardinality({ i \in 1..n : tasks[i].pc = "stored" })
            /\ \A i \in 1..n :
                  /\ answer.results[i].success = (tasks[i].pc = "stored")
                  /\ answer.results[i].success =>
                        answer.results[i].transactionId = tasks[i].transactionId

-----------------------------------------------------------------------------
(* A flag without a detected pattern                                       *)

\* C27: when analyzeFraud returns fraudFlag true with an empty list of
\* detected scams, some pattern of the catalog had a trigger word in the
\* text and the amount inside its band; without a band bonus and without a
\* detected pattern the score is at most 25 and the flag is false.
ThmC27_FlagWithoutDetectionNeedsBandBonus ==
    pc = "done" =>
        LET M == ClaimMatches
            banded == \E i \in 1..Len(SCAM_PATTERNS) : ClaimBandBonus(M, i)
        IN  /\ (Returned.fraudFlag /\ Returned.detectedScams = <<>>) => banded
            /\ (~banded /\ Returned.detectedScams = <<>>) =>
                  (Returned.fraudScore <= 25 /\ ~Returned.fraudFlag)

\* A call returned a flagged result without any detected scam.
WitC27_FlaggedWithoutDetectedScam ==
    /\ pc = "done"
    /\ Returned.fraudFlag
    /\ Returned.detectedScams = <<>>
    /\ Returned.fraudScore >= 70

-----------------------------------------------------------------------------
(* What is stored and what is answered                                     *)

\* The row of the table with the transaction id.
RowWithId(transactionId) ==
    store[CHOOSE k \in 1..Len(store) : store[k].transactionId = transactionId]

-----------------------------------------------------------------------------
(* Part 3.  The user-scoped reads: GET /api/transactions,                  *)
(* /api/transactions/recent, /api/transactions/:id and                     *)
(* /api/dashboard/stats, after transforms and batches of two users.        *)
(* Specification ReadSpec.  The k-th row inserted into the table has the   *)
(* generated primary key RowId(k), and a later timestamp than the rows     *)
(* inserted before it.                                                     *)

MaxRequests == 2

ReadUserIds == { "user-1", "user-2" }

RowId(k) == "id-" \o ToString(k)

WriteRequests ==
    { [ route |-> "transform", userId |-> u,
        files |-> << [ format |-> "NACHA",
                       content |-> NACHAHeaderIRS \o "\n" \o NACHAEntryShort76 ] >> ] :
        u \in ReadUserIds }
    \cup
    { [ route |-> "batch", userId |-> u,
        files |-> << [ format |-> "MT103", content |-> MT103SameReference ] >> ] :
        u \in ReadUserIds }

ReadRequests ==
    { [ route |-> r, userId |-> u, files |-> <<>>, id |-> "", limit |-> l ] :
        u \in ReadUserIds,
        r \in { "transactions", "stats" }, l \in { "" } }
    \cup
    { [ route |-> "recent", userId |-> u, files |-> <<>>, id |-> "", limit |-> l ] :
        u \in ReadUserIds, l \in { "", "1" } }
    \cup
    { [ route |-> "transaction", userId |-> u, files |-> <<>>, id |-> id, limit |-> "" ] :
        u \in ReadUserIds, id \in { RowId(1), RowId(2), "id-none" } }

\* A row as a read returns it: with its primary key.
WithId(k) == [ id |-> RowId(k), row |-> store[k] ]

\* select ... order by timestamp desc: the newest row first.
RECURSIVE NewestFirst(_)
NewestFirst(k) == IF k = 0 THEN <<>> ELSE << WithId(k) >> \o NewestFirst(k - 1)

\* A select without the where clause on customer_id.
getTransactionsOfAllCustomers(customerId) == NewestFirst(Len(store))

\* storage.getTransactionsByCustomerId
getTransactionsByCustomerId(customerId) ==
    SelectSeq(NewestFirst(Len(store)), LAMBDA t : t.row.customerId = customerId)

\* storage.getRecentTransactionsByCustomerId
getRecentTransactionsByCustomerId(customerId, limit) ==
    LET all == getTransactionsByCustomerId(customerId)
    IN  SubSeq(all, 1, Min(limit, Len(all)))

\* storage.getTransaction: by primary key; <<>> when there is no such row.
getTransaction(id) ==
    LET at == { k \in 1..Len(store) : RowId(k) = id }
    IN  IF at = {} THEN Absent ELSE Present(WithId(CHOOSE k \in at : TRUE))

ReadInit ==
    /\ ScorerIdle
    /\ request \in WriteRequests
    /\ now = 0
    /\ tasks = [ i \in 1..Len(request.files) |-> NewTask ]
    /\ store = <<>>
    /\ response = <<>>
    /\ earlier = <<>>
    /\ repeats = 0
    /\ randoms = 0

\* GET /api/transactions, lines 633-643.
GetTransactions ==
    /\ request.route = "transactions"
    /\ response = <<>>
    /\ response' = << [ status |-> 200,
                        transactions |-> getTransactionsByCustomerId(request.userId) ] >>
    /\ UNCHANGED <<request, now, tasks, store, earlier, repeats, randoms>>
    /\ UNCHANGED fvars

\* GET /api/transactions/recent, lines 645-656.  The limit is
\* parseInt(req.query.limit) || 10.
GetRecentTransactions ==
    /\ request.route = "recent"
    /\ response = <<>>
    /\ LET parsed == parseInt(request.limit)
           limit == IF parsed.nan \/ parsed.value = 0 THEN 10 ELSE parsed.value
       IN  response' =
             << [ status |-> 200,
                  transactions |->
                      getRecentTransactionsByCustomerId(request.userId, limit) ] >>
    /\ UNCHANGED <<request, now, tasks, store, earlier, repeats, randoms>>
    /\ UNCHANGED fvars

\* GET /api/transactions/:id, lines 658-677.
GetTransaction ==
    /\ request.route = "transaction"
    /\ response = <<>>
    /\ LET transaction == getTransaction(request.id)
       IN  response' =
             IF transaction = Absent
             THEN << [ status |-> 404, error |-> "Transaction not found" ] >>
             ELSE IF transaction[1].row.customerId # request.userId
             THEN << [ status |-> 403, error |-> "Access denied" ] >>
             ELSE << [ status |-> 200, transaction |-> transaction[1] ] >>
    /\ UNCHANGED <<request, now, tasks, store, earlier, repeats, randoms>>
    /\ UNCHANGED fvars

\* The sum of the fraud scores of the transactions from position i on.
RECURSIVE SumOfScores(_, _)
SumOfScores(transactions, i) ==
    IF i > Len(transactions) THEN 0
    ELSE transactions[i].row.fraudScore + SumOfScores(transactions, i + 1)

\* GET /api/dashboard/stats, lines 680-701.  averageFraudScore is
\* Math.round(average * 100) / 100, kept in hundredths.
GetDashboardStats ==
    /\ request.route = "stats"
    /\ response = <<>>
    /\ LET transactions == getTransactionsByCustomerId(request.userId)
           totalTransactions == Len(transactions)
           totalFraudScore == SumOfScores(transactions, 1)
       IN  response' =
             << [ status |-> 200,
                  totalTransactions |-> totalTransactions,
                  flaggedTransactions |->
                      Len(SelectSeq(transactions, LAMBDA tx : tx.row.fraudFlag)),
                  averageFraudScoreHundredths |->
                      IF totalTransactions > 0
                      THEN (200 * totalFraudScore + totalTransactions)
                              \div (2 * totalTransactions)
                      ELSE 0 ] >>
    /\ UNCHANGED <<request, now, tasks, store, earlier, repeats, randoms>>
    /\ UNCHANGED fvars

\* After the response, and after every callback of the request has ended,
\* one of the users sends the next request.
NextRequest ==
    /\ response # <<>>
    /\ \A i \in 1..Len(tasks) : tasks[i].pc \in { "stored", "failed", "rejected", "raised" }
    /\ repeats < MaxRequests
    /\ request' \in WriteRequests \cup ReadRequests
    /\ now' = now + 1
    /\ earlier' = response
    /\ response' = <<>>
    /\ tasks' = [ i \in 1..Len(request'.files) |-> NewTask ]
    /\ repeats' = repeats + 1
    /\ UNCHANGED <<store, randoms>>
    /\ UNCHANGED fvars

ReadNext ==
    \/ TransformStart
    \/ TransformStore
    \/ \E i \in 1..Len(tasks) : BatchItemStart(i)
    \/ \E i \in 1..Len(tasks) : BatchItemStore(i)
    \/ BatchRespond
    \/ GetTransactions
    \/ GetRecentTransactions
    \/ GetTransaction
    \/ GetDashboardStats
    \/ NextRequest

ReadSpec == ReadInit /\ [][ReadNext]_vars

-----------------------------------------------------------------------------
\* The positions in the table of the rows of a customer.
RowsOfCustomer(customerId) == { k \in 1..Len(store) : store[k].customerId = customerId }

\* The positions in the table of the row with a primary key.
RowsWithKey(id) == { k \in 1..Len(store) : RowId(k) = id }

\* A list of returned transactions holds only rows of the table that belong
\* to the requesting user.
OnlyOwnRows(transactions) ==
    \A i \in 1..Len(transactions) :
        \E k \in RowsOfCustomer(request.userId) : transactions[i] = WithId(k)

\* C29: after any sequence of transform, batch and read requests of two
\* authenticated users, GET /api/transactions/:id answers 404 when no row
\* has the id, 403 without a transaction when the row's customerId is not
\* the requesting user, and 200 with the row otherwise; the lists of
\* GET /api/transactions and /api/transactions/recent hold only rows whose
\* customerId is the requesting user, and the numbers of
\* /api/dashboard/stats count only those rows.
ThmC29_ReadsAreScopedToTheRequestingUser ==
    response # <<>> =>
        /\ request.route = "transaction" =>
              /\ RowsWithKey(request.id) = {} => response[1].status = 404
              /\ \A k \in RowsWithKey(request.id) :
                    IF store[k].customerId = request.userId
                    THEN response[1] = [ status |-> 200, transaction |-> WithId(k) ]
                    ELSE /\ response[1].status = 403
                         /\ "transaction" \notin DOMAIN response[1]
              /\ response[1].status = 200 =>
                    response[1].transaction.row.customerId = request.userId
        /\ request.route \in { "transactions", "recent" } =>
              /\ response[1].status = 200
              /\ OnlyOwnRows(response[1].transactions)
        /\ request.route = "stats" =>
              /\ response[1].totalTransactions =
                    Cardinality(RowsOfCustomer(request.userId))
              /\ response[1].flaggedTransactions =
                    Cardinality({ k \in RowsOfCustomer(request.userId) : store[k].fraudFlag })

\* The table holds a row of each user, user-2 asks for the row of user-1
\* by its id and is denied.
WitC29_OtherUsersRowDenied ==
    /\ request.route = "transaction"
    /\ request.userId = "user-2"
    /\ response # <<>>
    /\ response[1].status = 403
    /\ RowsOfCustomer("user-1") # {}
    /\ RowsOfCustomer("user-2") # {}
    /\ \A k \in RowsWithKey(request.id) : store[k].customerId = "user-1"

-----------------------------------------------------------------------------
\* The records of a file: its lines, trimmed, without the empty ones.
RecordsOf(content) ==
    SelectSeq(MapTrim(split(content, "\n")), LAMBDA line : Len(line) > 0)

\* The positions of the records of a type.
RecordsOfType(content, type) ==
    { i \in 1..Len(RecordsOf(content)) : startsWith(RecordsOf(content)[i], type) }

\* The last record of a type, if there is one.
LastRecordOfType(content, type) ==
    LET at == RecordsOfType(content, type)
    IN  IF at = {} THEN Absent
        ELSE Present(RecordsOf(content)[CHOOSE i \in at : \A j \in at : j <= i])

\* What the last batch header and the last entry detail alone give.
DataOfLastRecords(content) ==
    LET header == LastRecordOfType(content, "5")
        entry == LastRecordOfType(content, "6")
    IN  [ batchHeader |-> IF header = Absent THEN Absent
                          ELSE Present(BatchHeaderOf(header[1])),
          entryDetail |-> IF entry = Absent THEN Absent
                          ELSE Present(EntryDetailOf(entry[1])) ]

\* C30: for NACHA content parseNACHA returns the fields of the last '5'
\* record and of the last '6' record, whatever other records the file has;
\* the amount, recipient, account, sender and description of the
\* transaction, the trace number the batch endpoint takes the transaction
\* id from, and the one CdtTrfTxInf block of the XML are those of the last
\* records, and no file is failed for its earlier entries.
ThmC30_LastRecordOfEachTypeWins ==
    \A i \in 1..Len(tasks) :
        request.files[i].format = "NACHA" =>
            LET content == request.files[i].content
                last == DataOfLastRecords(content)
                traceNumber == FieldOrElse(last.entryDetail, "traceNumber", "")
                task == tasks[i]
            IN  /\ parseNACHA(content) = last
                /\ task.pc = "failed" => InsertRejected(store, task.transactionId)
                /\ task.xml # Absent =>
                      /\ task.amount =
                            ParseIntHundredths(FieldOrElse(last.entryDetail, "amount", "0"))
                      /\ task.recipientName =
                            FieldOrElse(last.entryDetail, "individualName", "")
                      /\ task.recipientAccount =
                            FieldOrElse(last.entryDetail, "dfiAccountNumber", "")
                      /\ task.senderName = FieldOrElse(last.batchHeader, "companyName", "")
                      /\ task.remittanceInfo =
                            FieldOrElse(last.batchHeader, "entryDescription", "")
                      /\ (request.route = "batch" /\ traceNumber # "") =>
                            task.transactionId = traceNumber
                      /\ task.xml[1] = convertNACHAToISO20022(last, now)
                      /\ Occurrences(task.xml[1], "<CdtTrfTxInf>") = 1

\* A file with two batch headers and three entries whose first entry names
\* another recipient is stored with the recipient of its last entry.
WitC30_EarlierEntriesDropped ==
    \E i \in 1..Len(tasks) :
        /\ tasks[i].pc = "stored"
        /\ request.files[i].format = "NACHA"
        /\ LET content == request.files[i].content
               entries == RecordsOfType(content, "6")
           IN  /\ Cardinality(entries) = 3
               /\ Cardinality(RecordsOfType(content, "5")) = 2
               /\ Len(RecordsOf(content)) > 5
               /\ \E e \in entries :
                     EntryDetailOf(RecordsOf(content)[e]).individualName
                         # tasks[i].recipientName
               /\ tasks[i].recipientName = "JOHN DOE"
               /\ store[Len(store)].recipientAccount = "87654321"

====
